---- MODULE Spec2Model ----
(***************************************************************************)
(* A model of the whare CLI update engine (packages/cli/src/index.ts):     *)
(* the package.json merge (packageJsonHandler.merge), the conflict marker  *)
(* codec (createConflictMarkers, transformToGitConflicts), the workspace   *)
(* resolver and the updateProject run.                                     *)
(*                                                                         *)
(* Text.  A string is a sequence of tokens; a token stands for a run of    *)
(* characters.  The characters the code's regular expressions and prefix   *)
(* tests look at (the double quote, the comma, the marker prefixes, the    *)
(* indentation) are tokens of their own, so that every test the code makes *)
(* on characters is a test on tokens here.  A text is a sequence of lines. *)
(***************************************************************************)
EXTENDS Integers, Sequences, FiniteSets, TLC

VARIABLES
    mode,       \* which entry point is being exercised: "merge", "transform", "compare", "update"
    current,    \* merge: the current manifest text handed to packageJsonHandler.merge
    incoming,   \* merge: the incoming (template) manifest text
    merged,     \* merge: the text merge returned
    mstate,     \* merge/transform: "input" before the call, "done" after it
    tcase,      \* transform: the mapping behind tinput (position, siblings, values)
    tinput,     \* transform: the text handed to transformToGitConflicts
    toutput,    \* transform: the text it returned
    valueA,     \* compare: the first value handed to hasValueChanged
    valueB,     \* compare: the second value
    changed,    \* compare: what hasValueChanged returned
    pc,         \* update: where the run is in run() and updateProject
    optionsPath,    \* update: options.path, the projectPath of updateProject
    isDry,      \* update: options.dry
    verbose,    \* update: options.verbose
    fs,         \* update: the project's file tree
    fs0,        \* update: the file tree before the run
    templateTree,   \* update: the template's tree at its head revision
    templateDiffs,  \* update: what git diff lists between the two revisions
    currentHash,    \* update: the head revision git ls-remote returned
    cloned,     \* update: whether git clone filled the temporary directory
    diffs,      \* update: getRepoDiffs' result
    filteredDiffs,  \* update: diffs without the ignored files
    projectWorkspaces,  \* update: the workspace directories to process, in order
    idx,        \* update: the next entry of the loop over rootDiffs / workspaceDiffs
    wsIdx,      \* update: the next entry of the loop over projectWorkspaces
    wsDiffs,    \* update: the translated entries of the workspace being processed
    resolved,   \* update: how each processed workspace was resolved
    writes,     \* update: every write and unlink the run made, in order
    logs,       \* update: the Logger's buffer
    console,    \* update: what was printed
    exitCode    \* update: the process's exit status, -1 while it runs

pureVars == <<mode, current, incoming, merged, mstate, tcase, tinput, toutput,
              valueA, valueB, changed>>
updateVars == <<pc, optionsPath, isDry, verbose, fs, fs0, templateTree, templateDiffs,
                currentHash, cloned, diffs, filteredDiffs, projectWorkspaces, idx,
                wsIdx, wsDiffs, resolved, writes, logs, console, exitCode>>
vars == <<pureVars, updateVars>>

-----------------------------------------------------------------------------
(* Tokens *)

Q == "\""
IND == "  "
SPACE == " "
IsWhitespace(tok) == tok = IND \/ tok = SPACE

Indent(d) == [i \in 1..d |-> IND]

Range(f) == { f[x] : x \in DOMAIN f }

\* Number.prototype.toString and String.prototype.padStart(n, "0"), one
\* token per digit.
Digits == <<"0", "1", "2", "3", "4", "5", "6", "7", "8", "9">>
RECURSIVE toString(_)
toString(n) ==
    IF n < 10 THEN <<Digits[n + 1]>>
    ELSE toString(n \div 10) \o <<Digits[(n % 10) + 1]>>
RECURSIVE padStart(_, _)
padStart(s, n) == IF Len(s) >= n THEN s ELSE padStart(<<"0">> \o s, n)

-----------------------------------------------------------------------------
(* JSON values: strings, numbers, null, objects (ordered mappings) and      *)
(* arrays (ordered mappings whose keys are the indices); Undef is the        *)
(* JavaScript undefined a property may hold.                                 *)

Str(s) == [t |-> "str", s |-> s, o |-> <<>>]
Num(s) == [t |-> "num", s |-> s, o |-> <<>>]
Null == [t |-> "null", s |-> <<>>, o |-> <<>>]
Obj(o) == [t |-> "obj", s |-> <<>>, o |-> o]
Bool(b) == [t |-> "bool", s |-> IF b THEN <<"true">> ELSE <<"false">>, o |-> <<>>]
Undef == [t |-> "undef", s |-> <<>>, o |-> <<>>]

\* JavaScript object operations on an ordered mapping (a sequence of
\* [k |-> key, v |-> value] with distinct keys, in insertion order).
ObjIndex(o, k) ==
    IF \E i \in 1..Len(o) : o[i].k = k
    THEN CHOOSE i \in 1..Len(o) : o[i].k = k
    ELSE 0
ObjHas(o, k) == ObjIndex(o, k) # 0
ObjGet(o, k) == IF ObjHas(o, k) THEN o[ObjIndex(o, k)].v ELSE Undef
ObjSet(o, k, v) ==
    IF ObjHas(o, k)
    THEN [o EXCEPT ![ObjIndex(o, k)] = [k |-> k, v |-> v]]
    ELSE Append(o, [k |-> k, v |-> v])
ObjDelete(o, k) == SelectSeq(o, LAMBDA e : e.k # k)

\* { ...value }: the own enumerable properties of value; nothing for
\* undefined; one property per index for a string.
RECURSIVE SpreadString(_, _)
SpreadString(s, i) ==
    IF i > Len(s) THEN <<>>
    ELSE <<[k |-> toString(i - 1), v |-> Str(<<s[i]>>)]>> \o SpreadString(s, i + 1)
Spread(v) ==
    CASE v.t = "obj" -> v.o
      [] v.t = "arr" -> v.o
      [] v.t = "str" -> SpreadString(v.s, 1)
      [] OTHER -> <<>>

\* An array of the given values: element i under the key of index i - 1.
Arr(vs) == [t |-> "arr", s |-> <<>>, o |-> [i \in 1..Len(vs) |-> [k |-> toString(i - 1), v |-> vs[i]]]]

-----------------------------------------------------------------------------
(* JSON.stringify(value, null, 2) *)

Defined(o) == SelectSeq(o, LAMBDA e : e.v.t # "undef")

\* The lines of a value at depth d, head before its first line and tail
\* after its last; an undefined array element is written null.
RECURSIVE valueLines(_, _, _, _)
RECURSIVE entryLines(_, _, _)
RECURSIVE objectLines(_, _, _)
RECURSIVE arrayLines(_, _, _)
valueLines(v, d, head, tail) ==
    CASE v.t = "str" -> << head \o <<Q>> \o v.s \o <<Q>> \o tail >>
      [] v.t \in {"num", "bool"} -> << head \o v.s \o tail >>
      [] v.t = "obj" ->
            IF Defined(v.o) = <<>> THEN << head \o <<"{}">> \o tail >>
            ELSE << head \o <<"{">> >> \o objectLines(Defined(v.o), d + 1, 1)
                    \o << Indent(d) \o <<"}">> \o tail >>
      [] v.t = "arr" ->
            IF v.o = <<>> THEN << head \o <<"[]">> \o tail >>
            ELSE << head \o <<"[">> >> \o arrayLines(v.o, d + 1, 1)
                    \o << Indent(d) \o <<"]">> \o tail >>
      [] OTHER -> << head \o <<"null">> \o tail >>
entryLines(e, d, comma) ==
    valueLines(e.v, d, Indent(d) \o <<Q>> \o e.k \o <<Q, ":", SPACE>>,
               IF comma THEN <<",">> ELSE <<>>)
objectLines(es, d, i) ==
    IF i > Len(es) THEN <<>>
    ELSE entryLines(es[i], d, i < Len(es)) \o objectLines(es, d, i + 1)
arrayLines(es, d, i) ==
    IF i > Len(es) THEN <<>>
    ELSE valueLines(es[i].v, d, Indent(d), IF i < Len(es) THEN <<",">> ELSE <<>>)
            \o arrayLines(es, d, i + 1)

\* JSON.stringify(undefined, null, 2) is undefined, no text: <<>>.
JSON_stringify(v) == IF v.t = "undef" THEN <<>> ELSE valueLines(v, 0, <<>>, <<>>)

\* JSON.stringify(value): the text on one line, without spaces.
RECURSIVE compact(_)
RECURSIVE compactEntries(_, _, _)
compact(v) ==
    CASE v.t = "str" -> <<Q>> \o v.s \o <<Q>>
      [] v.t \in {"num", "bool"} -> v.s
      [] v.t = "obj" -> <<"{">> \o compactEntries(Defined(v.o), TRUE, 1) \o <<"}">>
      [] v.t = "arr" -> <<"[">> \o compactEntries(v.o, FALSE, 1) \o <<"]">>
      [] OTHER -> <<"null">>
compactEntries(es, keyed, i) ==
    IF i > Len(es) THEN <<>>
    ELSE (IF keyed THEN <<Q>> \o es[i].k \o <<Q, ":">> ELSE <<>>)
            \o compact(es[i].v)
            \o (IF i < Len(es) THEN <<",">> ELSE <<>>)
            \o compactEntries(es, keyed, i + 1)
\* JSON.stringify(undefined) is undefined, no text: <<>>.
JSON_stringify_compact(v) == IF v.t = "undef" THEN <<>> ELSE compact(v)

-----------------------------------------------------------------------------
(* JSON.parse, on the indented texts JSON.stringify writes for objects of   *)
(* strings, nulls, objects and arrays of strings.  Any other text           *)
(* (conflict delimiters, a trailing comment, a misplaced comma) does not    *)
(* parse: ok is FALSE, which stands for the SyntaxError JSON.parse throws.  *)

IndexOfQ(l, from) ==
    IF \E j \in from..Len(l) : l[j] = Q
    THEN CHOOSE j \in from..Len(l) : l[j] = Q /\ \A h \in from..(j - 1) : l[h] # Q
    ELSE 0

NoLine == [ok |-> FALSE, k |-> <<>>, kind |-> "none", s |-> <<>>, comma |-> FALSE]
\* One "key": value line at depth d.  parseBody reads the value text, the
\* comma after it taken off; parseValue splits that comma off; parseAfterKey
\* takes the key that ends at the quote j.
parseBody(key, body, comma) ==
    IF body = <<"{">> /\ ~comma
        THEN [ok |-> TRUE, k |-> key, kind |-> "open", s |-> <<>>, comma |-> FALSE]
    ELSE IF body = <<"[">> /\ ~comma
        THEN [ok |-> TRUE, k |-> key, kind |-> "openarr", s |-> <<>>, comma |-> FALSE]
    ELSE IF body = <<"{}">>
        THEN [ok |-> TRUE, k |-> key, kind |-> "empty", s |-> <<>>, comma |-> comma]
    ELSE IF body = <<"[]">>
        THEN [ok |-> TRUE, k |-> key, kind |-> "emptyarr", s |-> <<>>, comma |-> comma]
    ELSE IF body = <<"null">>
        THEN [ok |-> TRUE, k |-> key, kind |-> "null", s |-> <<>>, comma |-> comma]
    ELSE IF Len(body) >= 2 /\ body[1] = Q /\ IndexOfQ(body, 2) = Len(body)
        THEN [ok |-> TRUE, k |-> key, kind |-> "str",
              s |-> SubSeq(body, 2, Len(body) - 1), comma |-> comma]
    ELSE NoLine
parseValue(key, rest) ==
    parseBody(key,
              IF rest[Len(rest)] = "," THEN SubSeq(rest, 1, Len(rest) - 1) ELSE rest,
              rest[Len(rest)] = ",")
parseAfterKey(l, d, j) ==
    IF ~(j > d + 1 /\ Len(l) >= j + 3 /\ l[j + 1] = ":" /\ l[j + 2] = SPACE) THEN NoLine
    ELSE parseValue(SubSeq(l, d + 2, j - 1), SubSeq(l, j + 3, Len(l)))
parseLine(l, d) ==
    IF ~(Len(l) >= d + 5 /\ SubSeq(l, 1, d) = Indent(d) /\ l[d + 1] = Q) THEN NoLine
    ELSE parseAfterKey(l, d, IndexOfQ(l, d + 2))

NoParse == [ok |-> FALSE, es |-> <<>>, next |-> 0, comma |-> FALSE]

\* The elements of an array of strings, one a line at depth d, up to the
\* line that closes the array.
RECURSIVE parseElements(_, _, _, _, _)
parseElements(lines, i, d, acc, more) ==
    IF i > Len(lines) THEN NoParse
    ELSE LET l == lines[i]
             closes == l = Indent(d - 1) \o <<"]">>
             closesComma == l = Indent(d - 1) \o <<"]", ",">>
             comma == l # <<>> /\ l[Len(l)] = ","
             body == IF comma THEN SubSeq(l, d + 1, Len(l) - 1) ELSE SubSeq(l, d + 1, Len(l))
         IN  IF closes \/ closesComma
             THEN IF more \/ acc = <<>> THEN NoParse
                  ELSE [ok |-> TRUE, es |-> acc, next |-> i + 1, comma |-> closesComma]
             ELSE IF acc # <<>> /\ ~more THEN NoParse
             ELSE IF Len(l) >= d + 2 /\ SubSeq(l, 1, d) = Indent(d)
                     /\ Len(body) >= 2 /\ body[1] = Q /\ IndexOfQ(body, 2) = Len(body)
             THEN parseElements(lines, i + 1, d,
                                Append(acc, Str(SubSeq(body, 2, Len(body) - 1))), comma)
             ELSE NoParse

\* The entries of an object at depth d from line i on, up to the line that
\* closes it; parseEntry takes the line i as parseLine read it.
RECURSIVE parseEntries(_, _, _, _, _)
RECURSIVE parseEntry(_, _, _, _, _, _)
parseEntry(lines, i, d, acc, more, p) ==
    IF lines[i] = Indent(d - 1) \o <<"}">> \/ lines[i] = Indent(d - 1) \o <<"}", ",">>
    THEN IF more THEN NoParse
         ELSE [ok |-> TRUE, es |-> acc, next |-> i + 1,
               comma |-> lines[i] = Indent(d - 1) \o <<"}", ",">>]
    ELSE IF ~p.ok \/ (acc # <<>> /\ ~more) THEN NoParse
    ELSE IF p.kind = "open"
    THEN LET sub == parseEntries(lines, i + 1, d + 1, <<>>, FALSE)
         IN  IF ~sub.ok THEN NoParse
             ELSE parseEntries(lines, sub.next, d, ObjSet(acc, p.k, Obj(sub.es)), sub.comma)
    ELSE IF p.kind = "openarr"
    THEN LET sub == parseElements(lines, i + 1, d + 1, <<>>, FALSE)
         IN  IF ~sub.ok THEN NoParse
             ELSE parseEntries(lines, sub.next, d, ObjSet(acc, p.k, Arr(sub.es)), sub.comma)
    ELSE parseEntries(lines, i + 1, d,
                      ObjSet(acc, p.k,
                             CASE p.kind = "empty" -> Obj(<<>>)
                               [] p.kind = "emptyarr" -> Arr(<<>>)
                               [] p.kind = "null" -> Null
                               [] OTHER -> Str(p.s)),
                      p.comma)
parseEntries(lines, i, d, acc, more) ==
    IF i > Len(lines) THEN NoParse
    ELSE parseEntry(lines, i, d, acc, more, parseLine(lines[i], d))

\* The document whose entries were read as r: nothing may follow its last line.
parseDocument(lines, r) ==
    IF r.ok /\ r.next = Len(lines) + 1 /\ ~r.comma
    THEN [ok |-> TRUE, v |-> Obj(r.es)]
    ELSE [ok |-> FALSE, v |-> Undef]
JSON_parse(lines) ==
    IF lines = << <<"{}">> >> THEN [ok |-> TRUE, v |-> Obj(<<>>)]
    ELSE IF Len(lines) >= 2 /\ lines[1] = <<"{">>
    THEN parseDocument(lines, parseEntries(lines, 2, 1, <<>>, FALSE))
    ELSE [ok |-> FALSE, v |-> Undef]

-----------------------------------------------------------------------------
(* The conflict marker codec *)

hasValueChanged_ByContent(a, b) == a.s # b.s \/ a.o # b.o
hasValueChanged(a, b) == JSON_stringify_compact(a) # JSON_stringify_compact(b)

\* createConflictMarkers giving every conflict the id 00: the variant that
\* tells whether C24 sees conflict ids that repeat.
createConflictMarkers_SameId(counter, originalKey) ==
    [start    |-> <<"conf-start::", "0", "0">>,
     mid      |-> <<"conf-mid::", "0", "0">>,
     end      |-> <<"conf-end::", "0", "0">>,
     template |-> <<"tmpl::">> \o originalKey,
     current  |-> <<"curr::">> \o originalKey]

createConflictMarkers(counter, originalKey) ==
    LET id == padStart(toString(counter), 2)
    IN  [start    |-> <<"conf-start::">> \o id,
         mid      |-> <<"conf-mid::">> \o id,
         end      |-> <<"conf-end::">> \o id,
         template |-> <<"tmpl::">> \o originalKey,
         current  |-> <<"curr::">> \o originalKey]

\* line.trim()
RECURSIVE trimStart(_)
trimStart(l) ==
    IF l # <<>> /\ IsWhitespace(l[1]) THEN trimStart(Tail(l)) ELSE l
RECURSIVE trimEnd(_)
trimEnd(l) ==
    IF l # <<>> /\ IsWhitespace(l[Len(l)]) THEN trimEnd(SubSeq(l, 1, Len(l) - 1)) ELSE l
trim(l) == trimEnd(trimStart(l))

\* line.startsWith('"' + prefix) and line.includes('"' + prefix)
startsWithQuoted(l, prefix) == Len(l) >= 2 /\ l[1] = Q /\ l[2] = prefix
includesQuoted(l, prefix) == \E i \in 1..(Len(l) - 1) : l[i] = Q /\ l[i + 1] = prefix

\* The trimmed next line at or after startIndex that is non-empty and is no
\* conf-end, conf-mid, tmpl or curr line; <<>> stands for null.
RECURSIVE findNextNonConflictLine(_, _)
findNextNonConflictLine(lines, startIndex) ==
    IF startIndex > Len(lines) THEN <<>>
    ELSE LET line == trim(lines[startIndex])
         IN  IF /\ line # <<>>
                /\ ~startsWithQuoted(line, "conf-end::")
                /\ ~startsWithQuoted(line, "conf-mid::")
                /\ ~startsWithQuoted(line, "tmpl::")
                /\ ~startsWithQuoted(line, "curr::")
             THEN line
             ELSE findNextNonConflictLine(lines, startIndex + 1)

\* nextNonConflictLine?.startsWith('"') ?? false
needsComma(lines, i) ==
    LET next == findNextNonConflictLine(lines, i + 1)
    IN  next # <<>> /\ next[1] = Q

\* line.replace(/"<prefix>([^"]+)"/, '"$1"'): the first quoted string that
\* starts with the prefix and goes on with at least one more character loses
\* the prefix.
replaceMarker(l, prefix) ==
    LET Match(i) == /\ l[i] = Q
                    /\ l[i + 1] = prefix
                    /\ l[i + 2] # Q
                    /\ IndexOfQ(l, i + 3) # 0
        hits == {i \in 1..(Len(l) - 3) : Match(i)}
    IN  IF hits = {} THEN l
        ELSE LET i == CHOOSE h \in hits : \A g \in hits : h <= g
             IN  SubSeq(l, 1, i) \o SubSeq(l, i + 2, Len(l))

\* line.replace(/,(?!.*,)/, ""): the last comma of the line is removed.
\* removeLastComma with the first comma taken for the last: the variant that
\* tells whether C5 sees a comma inside a value.
removeFirstComma(l) ==
    LET commas == {i \in 1..Len(l) : l[i] = ","}
    IN  IF commas = {} THEN l
        ELSE LET i == CHOOSE h \in commas : \A g \in commas : h <= g
             IN  SubSeq(l, 1, i - 1) \o SubSeq(l, i + 1, Len(l))

removeLastComma(l) ==
    LET commas == {i \in 1..Len(l) : l[i] = ","}
    IN  IF commas = {} THEN l
        ELSE LET i == CHOOSE h \in commas : \A g \in commas : g <= h
             IN  SubSeq(l, 1, i - 1) \o SubSeq(l, i + 1, Len(l))

LocalOpen == <<"<<<<<<< Local Package">>
Midpoint == <<"=======">>
TemplateClose == <<">>>>>>> Template">>
FromTemplate == " // From template"

templateLine(lines, i) ==
    removeLastComma(replaceMarker(lines[i], "tmpl::"))
        \o (IF needsComma(lines, i) THEN <<",">> ELSE <<>>) \o <<FromTemplate>>
currentLine(lines, i) ==
    removeLastComma(replaceMarker(lines[i], "curr::"))
        \o (IF needsComma(lines, i) THEN <<",">> ELSE <<>>)

\* transformFrom pushing the trimmed line where the source pushes the line:
\* the variant that tells whether C27 sees a changed line outside a block.
RECURSIVE transformFrom_PushTrimmed(_, _, _)
transformFrom_PushTrimmed(lines, i, inConflict) ==
    IF i > Len(lines) THEN <<>>
    ELSE LET line == lines[i]
             trimmedLine == trim(line)
         IN  IF includesQuoted(line, "conf-start::")
                 THEN <<LocalOpen>> \o transformFrom_PushTrimmed(lines, i + 1, TRUE)
             ELSE IF includesQuoted(line, "conf-mid::")
                 THEN <<Midpoint>> \o transformFrom_PushTrimmed(lines, i + 1, inConflict)
             ELSE IF includesQuoted(line, "conf-end::")
                 THEN <<TemplateClose>> \o transformFrom_PushTrimmed(lines, i + 1, FALSE)
             ELSE IF inConflict /\ startsWithQuoted(trimmedLine, "tmpl::")
                 THEN <<templateLine(lines, i)>>
                          \o transformFrom_PushTrimmed(lines, i + 1, inConflict)
             ELSE IF inConflict /\ startsWithQuoted(trimmedLine, "curr::")
                 THEN <<currentLine(lines, i)>>
                          \o transformFrom_PushTrimmed(lines, i + 1, inConflict)
             ELSE <<trimmedLine>> \o transformFrom_PushTrimmed(lines, i + 1, inConflict)

\* The loop of transformToGitConflicts from line i on, inConflict being the
\* flag the loop carries.
RECURSIVE transformFrom(_, _, _)
transformFrom(lines, i, inConflict) ==
    IF i > Len(lines) THEN <<>>
    ELSE LET line == lines[i]
             trimmedLine == trim(line)
         IN  IF includesQuoted(line, "conf-start::")
                 THEN <<LocalOpen>> \o transformFrom(lines, i + 1, TRUE)
             ELSE IF includesQuoted(line, "conf-mid::")
                 THEN <<Midpoint>> \o transformFrom(lines, i + 1, inConflict)
             ELSE IF includesQuoted(line, "conf-end::")
                 THEN <<TemplateClose>> \o transformFrom(lines, i + 1, FALSE)
             ELSE IF inConflict /\ startsWithQuoted(trimmedLine, "tmpl::")
                 THEN <<templateLine(lines, i)>> \o transformFrom(lines, i + 1, inConflict)
             ELSE IF inConflict /\ startsWithQuoted(trimmedLine, "curr::")
                 THEN <<currentLine(lines, i)>> \o transformFrom(lines, i + 1, inConflict)
             ELSE <<line>> \o transformFrom(lines, i + 1, inConflict)

transformToGitConflicts(jsonString) == transformFrom(jsonString, 1, FALSE)

-----------------------------------------------------------------------------
(* packageJsonHandler.merge *)

PACKAGE_JSON_PROTECTED_FIELDS ==
    { <<"name">>, <<"version">>, <<"private">>, <<"description">>, <<"author">>,
      <<"license">>, <<"repository">>, <<"bugs">>, <<"homepage">> }

PACKAGE_JSON_MERGE_FIELDS ==
    { <<"dependencies">>, <<"devDependencies">>, <<"peerDependencies">>, <<"scripts">> }

\* One sub-key of an incoming merge field (the body of the inner loop):
\* acc is [obj |-> mergedObject, counter |-> conflictCounter].
\* mergeSubKey taking the incoming value whenever the values differ: the
\* variant that tells whether C2 sees a missing conflict.
mergeSubKey_Overwrite(acc, subKey, subValue) ==
    IF ~ObjHas(acc.obj, subKey) \/ hasValueChanged(ObjGet(acc.obj, subKey), subValue)
    THEN [acc EXCEPT !.obj = ObjSet(acc.obj, subKey, subValue)]
    ELSE acc

\* mergeSubKey leaving out the sub-keys only incoming holds: the variant that
\* tells whether C3 sees a missing new sub-key.
mergeSubKey_DropNew(acc, subKey, subValue) ==
    IF ~ObjHas(acc.obj, subKey)
    THEN acc
    ELSE IF hasValueChanged(ObjGet(acc.obj, subKey), subValue)
    THEN LET markers == createConflictMarkers(acc.counter, subKey)
             originalValue == ObjGet(acc.obj, subKey)
             o0 == ObjDelete(acc.obj, subKey)
             o1 == ObjSet(o0, markers.start, Str(<<>>))
             o2 == ObjSet(o1, markers.current, originalValue)
             o3 == ObjSet(o2, markers.mid, Str(<<>>))
             o4 == ObjSet(o3, markers.template, subValue)
             o5 == ObjSet(o4, markers.end, Str(<<>>))
         IN  [obj |-> o5, counter |-> acc.counter + 1]
    ELSE acc

mergeSubKey(acc, subKey, subValue) ==
    IF ~ObjHas(acc.obj, subKey)
    THEN [acc EXCEPT !.obj = ObjSet(acc.obj, subKey, subValue)]
    ELSE IF hasValueChanged(ObjGet(acc.obj, subKey), subValue)
    THEN LET markers == createConflictMarkers(acc.counter, subKey)
             originalValue == ObjGet(acc.obj, subKey)
             o0 == ObjDelete(acc.obj, subKey)
             o1 == ObjSet(o0, markers.start, Str(<<>>))
             o2 == ObjSet(o1, markers.current, originalValue)
             o3 == ObjSet(o2, markers.mid, Str(<<>>))
             o4 == ObjSet(o3, markers.template, subValue)
             o5 == ObjSet(o4, markers.end, Str(<<>>))
         IN  [obj |-> o5, counter |-> acc.counter + 1]
    ELSE acc

RECURSIVE mergeSubKeys(_, _, _)
mergeSubKeys(acc, inc, i) ==
    IF i > Len(inc) THEN acc
    ELSE mergeSubKeys(mergeSubKey(acc, inc[i].k, inc[i].v), inc, i + 1)

\* mergeKey taking a protected key from incoming when current lacks it: the
\* variant that tells whether C1 sees a protected key that appears.
mergeKey_ProtectedFromIncoming(acc, currentJson, key, incomingValue) ==
    IF key \in PACKAGE_JSON_PROTECTED_FIELDS
    THEN [acc EXCEPT !.result = ObjSet(acc.result, key,
                                        IF ObjHas(currentJson, key)
                                        THEN ObjGet(currentJson, key) ELSE incomingValue)]
    ELSE IF key \in PACKAGE_JSON_MERGE_FIELDS /\ incomingValue.t \in {"obj", "arr"}
    THEN LET sub == mergeSubKeys([obj |-> Spread(ObjGet(currentJson, key)),
                                  counter |-> acc.counter],
                                 incomingValue.o, 1)
         IN  [result |-> ObjSet(acc.result, key, Obj(sub.obj)), counter |-> sub.counter]
    ELSE [acc EXCEPT !.result = ObjSet(acc.result, key, incomingValue)]

\* mergeKey keeping current's value of any other key current holds: the
\* variant that tells whether C4 sees a key that is not replaced.
mergeKey_KeepExisting(acc, currentJson, key, incomingValue) ==
    IF key \in PACKAGE_JSON_PROTECTED_FIELDS
    THEN [acc EXCEPT !.result = ObjSet(acc.result, key, ObjGet(currentJson, key))]
    ELSE IF key \in PACKAGE_JSON_MERGE_FIELDS /\ incomingValue.t \in {"obj", "arr"}
    THEN LET sub == mergeSubKeys([obj |-> Spread(ObjGet(currentJson, key)),
                                  counter |-> acc.counter],
                                 incomingValue.o, 1)
         IN  [result |-> ObjSet(acc.result, key, Obj(sub.obj)), counter |-> sub.counter]
    ELSE IF ObjHas(currentJson, key) THEN acc
    ELSE [acc EXCEPT !.result = ObjSet(acc.result, key, incomingValue)]

\* One top-level key of the incoming manifest (the body of the outer loop):
\* acc is [result |-> result, counter |-> conflictCounter].
mergeKey(acc, currentJson, key, incomingValue) ==
    IF key \in PACKAGE_JSON_PROTECTED_FIELDS
    THEN [acc EXCEPT !.result = ObjSet(acc.result, key, ObjGet(currentJson, key))]
    ELSE IF key \in PACKAGE_JSON_MERGE_FIELDS /\ incomingValue.t \in {"obj", "arr"}
    THEN LET sub == mergeSubKeys([obj |-> Spread(ObjGet(currentJson, key)),
                                  counter |-> acc.counter],
                                 incomingValue.o, 1)
         IN  [result |-> ObjSet(acc.result, key, Obj(sub.obj)), counter |-> sub.counter]
    ELSE [acc EXCEPT !.result = ObjSet(acc.result, key, incomingValue)]

RECURSIVE mergeKeys(_, _, _, _)
mergeKeys(acc, currentJson, incomingJson, i) ==
    IF i > Len(incomingJson) THEN acc
    ELSE mergeKeys(mergeKey(acc, currentJson, incomingJson[i].k, incomingJson[i].v),
                   currentJson, incomingJson, i + 1)

\* mergeResult starting from an empty mapping instead of a copy of current:
\* the variant that tells whether C23 sees a top-level key that is lost.
mergeResult_FromEmpty(currentJson, incomingJson) ==
    mergeKeys([result |-> <<>>, counter |-> 0], currentJson, incomingJson, 1).result

\* The merged mapping before it is serialized.
mergeResult(currentJson, incomingJson) ==
    mergeKeys([result |-> currentJson, counter |-> 0], currentJson, incomingJson, 1).result

\* merge(current, incoming, logger): the text returned; a text that does not
\* parse to an object throws inside the try and the catch returns current.
\* The try block of merge throws: one of the two texts is not JSON.
mergeFails(cur, inc) == ~JSON_parse(cur).ok \/ ~JSON_parse(inc).ok

\* What merge logs: the warning of its catch block, or nothing.
packageJsonHandler_mergeLogs(cur, inc) ==
    IF mergeFails(cur, inc)
    THEN <<"Warning: Failed to merge package.json, using current version">>
    ELSE <<>>

\* merge handing back the incoming text when it fails: the variant that
\* tells whether C11 sees which text comes back.
packageJsonHandler_merge_ReturnsIncoming(cur, inc) ==
    IF mergeFails(cur, inc) THEN inc
    ELSE transformToGitConflicts(
             JSON_stringify(Obj(mergeResult(JSON_parse(cur).v.o, JSON_parse(inc).v.o))))

\* merge once the two texts went through JSON.parse.
mergeParsed(cur, currentJson, incomingJson) ==
    IF ~currentJson.ok \/ ~incomingJson.ok THEN cur
    ELSE transformToGitConflicts(
             JSON_stringify(Obj(mergeResult(currentJson.v.o, incomingJson.v.o))))
packageJsonHandler_merge(cur, inc) == mergeParsed(cur, JSON_parse(cur), JSON_parse(inc))

-----------------------------------------------------------------------------
(* Paths and file trees.  A path is the sequence of its segments; the path  *)
(* "." is the empty sequence, which is what path.join makes of it.  A tree  *)
(* maps the path of every file to its text; a directory exists when a file  *)
(* lies under it.                                                           *)

join(a, b) == a \o b
basename(p) == IF p = <<>> THEN "" ELSE p[Len(p)]
startsWithPath(p, prefix) == Len(prefix) <= Len(p) /\ SubSeq(p, 1, Len(prefix)) = prefix
\* p.startsWith(prefix + path.sep)
startsWithDir(p, prefix) == startsWithPath(p, prefix) /\ Len(p) > Len(prefix)

isFile(tree, p) == p \in DOMAIN tree
isDirectory(tree, p) == \E q \in DOMAIN tree : startsWithDir(q, p)
existsSync(tree, p) == isFile(tree, p) \/ isDirectory(tree, p)
writeFile(tree, p, text) == [q \in DOMAIN tree \cup {p} |-> IF q = p THEN text ELSE tree[q]]
unlink(tree, p) == [q \in DOMAIN tree \ {p} |-> tree[q]]

\* The directories right under projectPath (readdir, isDirectory): a set,
\* readdir promising no order.
findWorkspaces(tree, projectPath) ==
    { SubSeq(q, 1, Len(projectPath) + 1) :
        q \in { r \in DOMAIN tree : startsWithPath(r, projectPath)
                                      /\ Len(r) > Len(projectPath) + 1 } }

NoWorkspace == [ok |-> FALSE, path |-> <<>>, packageName |-> Undef]
workspaceInfoOf(workspacePath, pkgJson) ==
    IF ~pkgJson.ok THEN NoWorkspace
    ELSE [ok |-> TRUE, path |-> workspacePath,
          packageName |-> ObjGet(pkgJson.v.o, <<"name">>)]
getWorkspaceInfo(tree, workspacePath) ==
    IF ~existsSync(tree, join(workspacePath, <<"package.json">>))
        \/ ~isFile(tree, join(workspacePath, <<"package.json">>))
    THEN NoWorkspace
    ELSE workspaceInfoOf(workspacePath, JSON_parse(tree[join(workspacePath, <<"package.json">>)]))

\* templateWorkspace?.packageName
optionalPackageName(info) == IF info.ok THEN info.packageName ELSE Undef

\* The first of <template>/packages/<basename> and <template>/apps/<basename>
\* whose package name is the workspace's; <<>> stands for null.  Template
\* paths are relative to the directory the template was cloned into.
\* findMatchingTemplateWorkspace looking through every workspace of the
\* template for the name, whatever its directory: the variant that tells
\* whether C10 sees a resolution across directory names.
findMatchingTemplateWorkspace_ByName(workspace, template) ==
    LET named == { t \in findWorkspaces(template, <<"packages">>)
                          \cup findWorkspaces(template, <<"apps">>) :
                     /\ isFile(template, join(t, <<"package.json">>))
                     /\ JSON_parse(template[join(t, <<"package.json">>)]).ok
                     /\ ObjGet(JSON_parse(template[join(t, <<"package.json">>)]).v.o,
                               <<"name">>) = workspace.packageName }
    IN  IF named = {} THEN <<>> ELSE CHOOSE t \in named : TRUE

possiblePaths_AppsFirst(workspaceName) == << <<"apps", workspaceName>>, <<"packages", workspaceName>> >>
possiblePaths(workspaceName) == << <<"packages", workspaceName>>, <<"apps", workspaceName>> >>
firstMatching(workspace, paths, infos) ==
    IF optionalPackageName(infos[1]) = workspace.packageName THEN paths[1]
    ELSE IF optionalPackageName(infos[2]) = workspace.packageName THEN paths[2]
    ELSE <<>>
findMatchingTemplateWorkspace(workspace, template) ==
    firstMatching(workspace, possiblePaths(basename(workspace.path)),
                  [i \in 1..2 |->
                      getWorkspaceInfo(template, possiblePaths(basename(workspace.path))[i])])

getTemplateWorkspaces(template) ==
    [templateLibrary |-> IF existsSync(template, <<"packages", "template-library">>)
                         THEN <<"packages", "template-library">> ELSE <<>>,
     templateApp |-> IF existsSync(template, <<"apps", "template-app">>)
                     THEN <<"apps", "template-app">> ELSE <<>>]

DEFAULT_IGNORED_FILES_OnlyBinary == { "bun.lockb" }
DEFAULT_IGNORED_FILES == { "bun.lockb", "bun.lock" }

-----------------------------------------------------------------------------
(* Special files and applyDiff *)

shouldHandle(filePath) == basename(filePath) = "package.json"

\* handleSpecialFile taking the incoming content when the current one does
\* not parse: the variant that tells whether C25 sees a conflicted manifest
\* that is written over.
handleSpecialFile_IncomingWhenUnparseable(filePath, currentContent, incomingContent) ==
    IF shouldHandle(filePath)
    THEN IF ~currentContent.exists \/ currentContent.text = <<>>
              \/ ~JSON_parse(currentContent.text).ok
         THEN incomingContent
         ELSE packageJsonHandler_merge(currentContent.text, incomingContent)
    ELSE incomingContent

\* currentContent is [exists |-> BOOLEAN, text |-> text]; !currentContent
\* holds for null and for the empty string.
handleSpecialFile(filePath, currentContent, incomingContent) ==
    IF shouldHandle(filePath)
    THEN IF ~currentContent.exists \/ currentContent.text = <<>>
         THEN incomingContent
         ELSE packageJsonHandler_merge(currentContent.text, incomingContent)
    ELSE incomingContent

\* What handleSpecialFile and applyDiff log: the warning of a merge that
\* failed, when the merge is called.
handleSpecialFileLogs(filePath, currentContent, incomingContent) ==
    IF shouldHandle(filePath) /\ currentContent.exists /\ currentContent.text # <<>>
    THEN packageJsonHandler_mergeLogs(currentContent.text, incomingContent)
    ELSE <<>>
applyDiffLogs(tree, projectPath, diff) ==
    IF diff.type = "delete" \/ ~isFile(tree, join(projectPath, diff.path)) THEN <<>>
    ELSE handleSpecialFileLogs(diff.path,
                               [exists |-> TRUE, text |-> tree[join(projectPath, diff.path)]],
                               diff.content)

\* The tree after applyDiff(projectPath, diff, logger).
applyDiff(tree, projectPath, diff) ==
    LET targetPath == join(projectPath, diff.path)
        currentContent == IF isFile(tree, targetPath)
                          THEN [exists |-> TRUE, text |-> tree[targetPath]]
                          ELSE [exists |-> FALSE, text |-> <<>>]
    IN  IF diff.type = "delete" THEN unlink(tree, targetPath)
        ELSE writeFile(tree, targetPath,
                       handleSpecialFile(diff.path, currentContent, diff.content))

-----------------------------------------------------------------------------
(* Inputs of the merge and of the codec *)

MaxSubKeys == 2
MaxTopKeys == 2
MaxSiblings == 2

\* String values: a plain one and one that holds a comma.
StrValues == { <<"a">>, <<"b", ",", "c">> }
SubKeys == { <<"dev">>, <<"build">> }

DistinctKeys(o) == \A i, j \in 1..Len(o) : o[i].k = o[j].k => i = j
SeqsUpTo(S, n) == UNION { [1..m -> S] : m \in 0..n }

SubEntries == { [k |-> k, v |-> Str(s)] : k \in SubKeys, s \in StrValues }
SubObjects == { o \in SeqsUpTo(SubEntries, MaxSubKeys) : DistinctKeys(o) }

\* Top-level keys, in the order a manifest lists them: a protected one, a
\* merge-candidate one, one that is neither.  Each may be missing.
Manifests ==
    { m \in { Defined(<< [k |-> <<"name">>, v |-> n],
                         [k |-> <<"scripts">>, v |-> sc],
                         [k |-> <<"type">>, v |-> ty] >>) :
                n \in { Str(x) : x \in StrValues } \cup {Undef},
                sc \in { Obj(o) : o \in SubObjects } \cup {Undef},
                ty \in { Str(x) : x \in StrValues } \cup {Undef} } :
        Len(m) <= MaxTopKeys }
ManifestTexts == { JSON_stringify(Obj(m)) : m \in Manifests }

\* A mapping that holds the five sentinel keys of one divergent key (dev)
\* after `before` and ahead of `after`.
SiblingKeys == { <<"build">>, <<"test">> }
SiblingEntries == { [k |-> k, v |-> Str(s)] : k \in SiblingKeys, s \in StrValues }
ConflictValues == StrValues \cup { <<"d">> }
sentinelEntries(counter, key, currentValue, incomingValue) ==
    LET markers == createConflictMarkers(counter, key)
    IN  << [k |-> markers.start, v |-> Str(<<>>)],
           [k |-> markers.current, v |-> Str(currentValue)],
           [k |-> markers.mid, v |-> Str(<<>>)],
           [k |-> markers.template, v |-> Str(incomingValue)],
           [k |-> markers.end, v |-> Str(<<>>)] >>

-----------------------------------------------------------------------------
(* The merge as a state machine: Init draws the two texts, Merge calls     *)
(* packageJsonHandler.merge on them.                                        *)

\* The update run's variables while another entry point is exercised.
UpdateIdle ==
    /\ pc = "idle"
    /\ optionsPath = <<>>
    /\ isDry = FALSE
    /\ verbose = FALSE
    /\ fs = <<>>
    /\ fs0 = <<>>
    /\ templateTree = <<>>
    /\ templateDiffs = <<>>
    /\ currentHash = <<>>
    /\ cloned = FALSE
    /\ diffs = <<>>
    /\ filteredDiffs = <<>>
    /\ projectWorkspaces = <<>>
    /\ idx = 0
    /\ wsIdx = 0
    /\ wsDiffs = <<>>
    /\ resolved = <<>>
    /\ writes = <<>>
    /\ logs = <<>>
    /\ console = <<>>
    /\ exitCode = -1

\* The comparison's variables while another entry point is exercised.
CompareIdle == valueA = Undef /\ valueB = Undef /\ changed = FALSE

NoCase == [pos |-> 0, siblings |-> <<>>, currentValue |-> <<>>, incomingValue |-> <<>>]

\* logger.log(message) for each message: printed when verbose, buffered
\* otherwise.
Log(messages) ==
    /\ console' = IF verbose THEN console \o messages ELSE console
    /\ logs' = IF verbose THEN logs ELSE logs \o messages

InitMerge ==
    /\ mode = "merge"
    /\ current \in ManifestTexts
    /\ incoming \in ManifestTexts
    /\ merged = <<>>
    /\ mstate = "input"
    /\ tcase = NoCase
    /\ tinput = <<>>
    /\ toutput = <<>>
    /\ UpdateIdle
    /\ CompareIdle

Merge ==
    /\ mode = "merge"
    /\ mstate = "input"
    /\ merged' = packageJsonHandler_merge(current, incoming)
    /\ Log(packageJsonHandler_mergeLogs(current, incoming))
    /\ mstate' = "done"
    /\ UNCHANGED <<mode, current, incoming, tcase, tinput, toutput, valueA, valueB, changed>>
    /\ UNCHANGED <<pc, optionsPath, isDry, verbose, fs, fs0, templateTree, templateDiffs,
                   currentHash, cloned, diffs, filteredDiffs, projectWorkspaces, idx, wsIdx,
                   wsDiffs, resolved, writes, exitCode>>

NextMerge == Merge
SpecMerge == InitMerge /\ [][NextMerge]_vars

\* Texts JSON.parse rejects: the empty text, a text that is no JSON at all,
\* a manifest cut before its closing brace, a manifest with a comma after
\* its last entry.
BrokenTexts ==
    { <<>>,
      << <<"not json">> >>,
      << <<"{">>, <<IND, Q, "name", Q, ":", SPACE, Q, "a", Q>> >>,
      << <<"{">>, <<IND, Q, "name", Q, ":", SPACE, Q, "a", Q, ",">>, <<"}">> >> }

\* The merge on two texts of which at least one is not JSON; the logger is
\* verbose or not.
InitMergeBroken ==
    /\ mode = "merge"
    /\ current \in ManifestTexts \cup BrokenTexts
    /\ incoming \in ManifestTexts \cup BrokenTexts
    /\ current \in BrokenTexts \/ incoming \in BrokenTexts
    /\ merged = <<>>
    /\ mstate = "input"
    /\ tcase = NoCase
    /\ tinput = <<>>
    /\ toutput = <<>>
    /\ CompareIdle
    /\ pc = "idle"
    /\ optionsPath = <<>>
    /\ isDry = FALSE
    /\ verbose \in BOOLEAN
    /\ fs = << >>
    /\ fs0 = << >>
    /\ templateTree = << >>
    /\ templateDiffs = <<>>
    /\ currentHash = <<>>
    /\ cloned = FALSE
    /\ diffs = <<>>
    /\ filteredDiffs = <<>>
    /\ projectWorkspaces = <<>>
    /\ idx = 0
    /\ wsIdx = 0
    /\ wsDiffs = <<>>
    /\ resolved = <<>>
    /\ writes = <<>>
    /\ logs = <<>>
    /\ console = <<>>
    /\ exitCode = -1
SpecMergeBroken == InitMergeBroken /\ [][NextMerge]_vars

\* Manifests with two merge-candidate fields, each an object, missing, or a
\* value that is no object.
DependencyObjects ==
    { <<>> } \cup { << [k |-> <<"lib">>, v |-> Str(s)] >> : s \in StrValues }
FieldManifests ==
    { Defined(<< [k |-> <<"scripts">>, v |-> sc],
                 [k |-> <<"dependencies">>, v |-> dep] >>) :
        sc \in { Obj(o) : o \in SubObjects } \cup { Undef, Null, Str(<<"a">>) },
        dep \in { Obj(o) : o \in DependencyObjects } \cup { Undef, Null } }
FieldManifestTexts == { JSON_stringify(Obj(m)) : m \in FieldManifests }

InitMergeFields ==
    /\ mode = "merge"
    /\ current \in FieldManifestTexts
    /\ incoming \in FieldManifestTexts
    /\ merged = <<>>
    /\ mstate = "input"
    /\ tcase = NoCase
    /\ tinput = <<>>
    /\ toutput = <<>>
    /\ UpdateIdle
    /\ CompareIdle
SpecMergeFields == InitMergeFields /\ [][NextMerge]_vars

(* The codec as a state machine: Init draws the marker-annotated mapping,  *)
(* serialized under a scripts key; Transform calls transformToGitConflicts. *)

InitTransform ==
    /\ mode = "transform"
    /\ \E sib \in { o \in SeqsUpTo(SiblingEntries, MaxSiblings) : DistinctKeys(o) },
          cv \in ConflictValues, iv \in ConflictValues :
         \E pos \in 0..Len(sib) :
            /\ cv # iv
            /\ tcase = [pos |-> pos, siblings |-> sib,
                        currentValue |-> cv, incomingValue |-> iv]
            /\ tinput = JSON_stringify(Obj(<< [k |-> <<"scripts">>,
                    v |-> Obj(SubSeq(sib, 1, pos)
                              \o sentinelEntries(0, <<"dev">>, cv, iv)
                              \o SubSeq(sib, pos + 1, Len(sib)))] >>))
    /\ current = <<>>
    /\ incoming = <<>>
    /\ merged = <<>>
    /\ mstate = "input"
    /\ toutput = <<>>
    /\ UpdateIdle
    /\ CompareIdle

Transform ==
    /\ mode = "transform"
    /\ mstate = "input"
    /\ toutput' = transformToGitConflicts(tinput)
    /\ mstate' = "done"
    /\ UNCHANGED <<mode, current, incoming, merged, tcase, tinput, valueA, valueB, changed>>
    /\ UNCHANGED updateVars

NextTransform == Transform
SpecTransform == InitTransform /\ [][NextTransform]_vars

\* The codec on any serialized document: a scripts mapping of sibling keys
\* with no conflict, with the sentinel keys of one (dev) among them, or with
\* those of a second one (lint) at its end as well.
TransformMappings ==
    UNION { { SubSeq(sib, 1, pos)
                \o (IF n >= 1 THEN sentinelEntries(0, <<"dev">>, cv, iv) ELSE <<>>)
                \o SubSeq(sib, pos + 1, Len(sib))
                \o (IF n >= 2 THEN sentinelEntries(1, <<"lint">>, iv, cv) ELSE <<>>) :
                pos \in 0..Len(sib), n \in 0..2,
                cv \in ConflictValues, iv \in ConflictValues } :
            sib \in { o \in SeqsUpTo(SiblingEntries, MaxSiblings) : DistinctKeys(o) } }
InitTransformAny ==
    /\ mode = "transform"
    /\ tcase = NoCase
    /\ tinput \in { JSON_stringify(Obj(<< [k |-> <<"scripts">>, v |-> Obj(o)] >>)) :
                       o \in TransformMappings }
    /\ current = <<>>
    /\ incoming = <<>>
    /\ merged = <<>>
    /\ mstate = "input"
    /\ toutput = <<>>
    /\ UpdateIdle
    /\ CompareIdle
SpecTransformAny == InitTransformAny /\ [][NextTransform]_vars

\* JSON-compatible values: strings, numbers, booleans and null, and objects
\* and arrays of them nested depth deep, the outermost of width entries, the
\* ones inside of one.
MaxDepth == 2
MaxWidth == 1
Scalars == { Str(<<"123">>), Num(<<"123">>), Bool(TRUE), Null }
ValueKeys == { <<"a">>, <<"b">> }
RECURSIVE JsonValues(_, _)
JsonValues(depth, width) ==
    IF depth = 0 THEN Scalars
    ELSE Scalars
           \cup { Arr(vs) : vs \in SeqsUpTo(JsonValues(depth - 1, 1), width) }
           \cup { Obj(o) :
                    o \in { es \in SeqsUpTo({ [k |-> k, v |-> v] :
                                                k \in ValueKeys, v \in JsonValues(depth - 1, 1) },
                                            width) : DistinctKeys(es) } }

\* hasValueChanged on two values, either of which may be absent; the second
\* is the first again, a scalar, or an object or array of scalars.
InitCompare ==
    /\ mode = "compare"
    /\ current = <<>>
    /\ incoming = <<>>
    /\ merged = <<>>
    /\ mstate = "input"
    /\ tcase = NoCase
    /\ tinput = <<>>
    /\ toutput = <<>>
    /\ valueA \in JsonValues(MaxDepth, MaxWidth) \cup {Undef}
    /\ valueB \in JsonValues(1, MaxWidth) \cup {Undef, valueA}
    /\ changed = FALSE
    /\ UpdateIdle

Compare ==
    /\ mode = "compare"
    /\ mstate = "input"
    /\ changed' = hasValueChanged(valueA, valueB)
    /\ mstate' = "done"
    /\ UNCHANGED <<mode, current, incoming, merged, tcase, tinput, toutput, valueA, valueB>>
    /\ UNCHANGED updateVars

NextCompare == Compare
SpecCompare == InitCompare /\ [][NextCompare]_vars

-----------------------------------------------------------------------------
(* The update run: run()'s "update" case from the call of updateProject on, *)
(* the precondition checks having passed.                                   *)

MaxDiffs == 2
MaxWorkspaces == 2

Entry(k, v) == [k |-> <<k>>, v |-> v]
TextOf(tag) == << <<tag>> >>
TreeOf(files) == [q \in { f.path : f \in files } |-> (CHOOSE f \in files : f.path = q).text]
File(path, text) == [path |-> path, text |-> text]

\* The revision the project tracks and the template's head revision.
FromVersion == <<"v1">>
HeadHash == <<"v2">>

\* The project: a root manifest that tracks FromVersion, root files, and up
\* to MaxWorkspaces of four workspaces: one that the template also has
\* (same directory, same name), one named like a template workspace that
\* lives in another directory, one the template does not know, and a
\* directory without a manifest.
ProjectRootManifest ==
    Obj(<< Entry("name", Str(<<"proj">>)),
           Entry("scripts", Obj(<< Entry("dev", Str(<<"a">>)) >>)),
           Entry("whare", Obj(<< Entry("version", Str(FromVersion)) >>)) >>)

\* What whare.ignoredWorkspaces may list for the workspace packages/ui: its
\* path with the leading ./, its path with a trailing separator.
IgnoredEntries == { <<"./", "packages", "/", "ui">>, <<"packages", "/", "ui", "/">> }
ProjectRootManifestIgnoring(entry) ==
    Obj(ObjSet(ProjectRootManifest.o, <<"whare">>,
               Obj(<< Entry("version", Str(FromVersion)),
                      Entry("ignoredWorkspaces", Arr(<< Str(entry) >>)) >>)))

ProjectRootFilesOf(manifest) ==
    { File(<<"package.json">>, JSON_stringify(manifest)),
      File(<<"README.md">>, TextOf("readme, local")),
      File(<<"bun.lock">>, TextOf("lock, local")) }
ProjectRootFiles == ProjectRootFilesOf(ProjectRootManifest)

ProjectWorkspaceFiles ==
    { { File(<<"packages", "ui", "package.json">>,
             JSON_stringify(Obj(<< Entry("name", Str(<<"@t/ui">>)),
                                   Entry("scripts", Obj(<< Entry("build", Str(<<"a">>)) >>)) >>))),
        File(<<"packages", "ui", "bun.lockb">>, TextOf("lock, local")),
        File(<<"packages", "ui", "old.ts">>, TextOf("old, local")) },
      { File(<<"packages", "mylib", "package.json">>,
             JSON_stringify(Obj(<< Entry("name", Str(<<"@t/core">>)) >>))) },
      { File(<<"packages", "utils", "package.json">>,
             JSON_stringify(Obj(<< Entry("name", Str(<<"utils">>)) >>))) },
      { File(<<"apps", "web", "package.json">>,
             JSON_stringify(Obj(<< Entry("name", Str(<<"web">>)) >>))) },
      { File(<<"packages", "docs", "guide.md">>, TextOf("guide, local")) } }

\* The root manifests of a project with the chosen workspaces: an ignore
\* list only where the workspace it names is there.
ProjectRootManifests(chosen) ==
    {ProjectRootManifest}
        \cup (IF \E w \in chosen : \E f \in w : f.path = <<"packages", "ui", "package.json">>
              THEN { ProjectRootManifestIgnoring(e) : e \in IgnoredEntries }
              ELSE {})
ProjectTrees(base) ==
    UNION { { TreeOf({ File(join(base, f.path), f.text) :
                         f \in ProjectRootFilesOf(manifest) \cup UNION chosen }) :
                manifest \in ProjectRootManifests(chosen) } :
            chosen \in { c \in SUBSET ProjectWorkspaceFiles : Cardinality(c) <= MaxWorkspaces } }

\* The project path the command is given: '.' (the default), of which
\* path.join keeps nothing, or a directory.
ProjectPaths == { <<>> }
OtherProjectPaths == { <<"proj">> }

\* The template at its head revision: with or without a whare object in its
\* root manifest, with or without the generic app workspace.
TemplateRootManifest(withWhare) ==
    Obj(<< Entry("name", Str(<<"template">>)),
           Entry("scripts", Obj(<< Entry("dev", Str(<<"b">>)) >>)) >>
        \o (IF withWhare
            THEN << Entry("whare", Obj(<< Entry("version", Str(<<"t0">>)) >>)) >>
            ELSE <<>>))

TemplateFiles(withWhare, withApp) ==
    { File(<<"package.json">>, JSON_stringify(TemplateRootManifest(withWhare))),
      File(<<"README.md">>, TextOf("readme, template")),
      File(<<"bun.lock">>, TextOf("lock, template")),
      File(<<"packages", "ui", "package.json">>,
           JSON_stringify(Obj(<< Entry("name", Str(<<"@t/ui">>)),
                                 Entry("scripts", Obj(<< Entry("build", Str(<<"b">>)) >>)) >>))),
      File(<<"packages", "core", "package.json">>,
           JSON_stringify(Obj(<< Entry("name", Str(<<"@t/core">>)),
                                 Entry("type", Str(<<"module">>)) >>))),
      File(<<"packages", "template-library", "index.ts">>, TextOf("library, template")) }
    \cup (IF withApp
          THEN { File(<<"apps", "template-app", "main.ts">>, TextOf("app, template")) }
          ELSE {})

TemplateTrees ==
    { TreeOf(TemplateFiles(FALSE, TRUE)), TreeOf(TemplateFiles(TRUE, TRUE)),
      TreeOf(TemplateFiles(FALSE, FALSE)) }

\* What git diff --name-status can list for a template tree, in its order
\* (by path); an added or modified entry carries the file's text at the head
\* revision (git show).
DiffOf(tree, type, path) ==
    [type |-> type, path |-> path,
     content |-> IF type = "delete" THEN <<>> ELSE tree[path]]

DiffCandidates(tree) ==
    SelectSeq(<< [type |-> "modify", path |-> <<"README.md">>],
                 [type |-> "add", path |-> <<"apps", "template-app", "main.ts">>],
                 [type |-> "modify", path |-> <<"bun.lock">>],
                 [type |-> "modify", path |-> <<"package.json">>],
                 [type |-> "modify", path |-> <<"packages", "core", "package.json">>],
                 [type |-> "add", path |-> <<"packages", "template-library", "index.ts">>],
                 [type |-> "delete", path |-> <<"packages", "ui", "bun.lockb">>],
                 [type |-> "delete", path |-> <<"packages", "ui", "old.ts">>],
                 [type |-> "modify", path |-> <<"packages", "ui", "package.json">>] >>,
              LAMBDA d : (d.type = "delete") # isFile(tree, d.path))

RECURSIVE pickDiffs(_, _, _, _)
pickDiffs(tree, candidates, chosen, i) ==
    IF i > Len(candidates) THEN <<>>
    ELSE (IF i \in chosen
          THEN << DiffOf(tree, candidates[i].type, candidates[i].path) >>
          ELSE <<>>) \o pickDiffs(tree, candidates, chosen, i + 1)

DiffLists(tree) ==
    { pickDiffs(tree, DiffCandidates(tree), chosen, 1) :
        chosen \in { c \in SUBSET (1..Len(DiffCandidates(tree))) : Cardinality(c) <= MaxDiffs } }

\* The orders readdir may list a set of directories in.
Orders(S) ==
    { q \in [1..Cardinality(S) -> S] : \A i, j \in 1..Cardinality(S) : q[i] = q[j] => i = j }

\* The run before its first step, whatever it is given.
InitRun ==
    /\ mode = "update"
    /\ current = <<>>
    /\ incoming = <<>>
    /\ merged = <<>>
    /\ mstate = "idle"
    /\ tcase = NoCase
    /\ tinput = <<>>
    /\ toutput = <<>>
    /\ CompareIdle
    /\ pc = "getHash"
    /\ currentHash = <<>>
    /\ cloned = FALSE
    /\ diffs = <<>>
    /\ filteredDiffs = <<>>
    /\ projectWorkspaces = <<>>
    /\ idx = 0
    /\ wsIdx = 0
    /\ wsDiffs = <<>>
    /\ resolved = <<>>
    /\ writes = <<>>
    /\ logs = <<>>
    /\ console = <<>>
    /\ exitCode = -1
InitUpdateAt(paths) ==
    /\ InitRun
    /\ optionsPath \in paths
    /\ isDry \in BOOLEAN
    /\ verbose \in BOOLEAN
    /\ fs \in ProjectTrees(optionsPath)
    /\ fs0 = fs
    /\ templateTree \in TemplateTrees
    /\ templateDiffs \in DiffLists(templateTree)
InitUpdate == InitUpdateAt(ProjectPaths)

\* The run on projects of one workspace and the templates it may meet: the
\* workspace under packages/ or apps/, of one of two basenames, its manifest
\* named like a template workspace, nameless or missing; the template with
\* any of two named workspaces and the two generic ones.
ResolveNames == { Str(<<"@t/ui">>), Str(<<"web">>), Undef }
ResolveWorkspaces ==
    { File(<<category, name, "package.json">>,
           JSON_stringify(Obj(<< [k |-> <<"name">>, v |-> packageName] >>))) :
        category \in {"packages", "apps"}, name \in {"ui", "web"},
        packageName \in ResolveNames }
      \cup { File(<<category, name, "guide.md">>, TextOf("guide, local")) :
                category \in {"packages", "apps"}, name \in {"ui", "web"} }
ResolveProjectTrees ==
    { TreeOf(ProjectRootFiles \cup {w}) : w \in ResolveWorkspaces }
ResolveTemplateWorkspaces ==
    { File(<<"packages", "ui", "package.json">>,
           JSON_stringify(Obj(<< Entry("name", Str(<<"@t/ui">>)),
                                 Entry("type", Str(<<"module">>)) >>))),
      File(<<"apps", "web", "package.json">>,
           JSON_stringify(Obj(<< Entry("name", Str(<<"web">>)),
                                 Entry("type", Str(<<"module">>)) >>))),
      File(<<"packages", "template-library", "index.ts">>, TextOf("library, template")),
      File(<<"apps", "template-app", "main.ts">>, TextOf("app, template")) }
ResolveTemplateTrees ==
    { TreeOf({ File(<<"package.json">>, JSON_stringify(TemplateRootManifest(FALSE))),
               File(<<"README.md">>, TextOf("readme, template")) } \cup chosen) :
        chosen \in SUBSET ResolveTemplateWorkspaces }
\* No entry, or one: of a root file or of a file of a template workspace.
ResolveDiffLists(tree) ==
    { <<>> } \cup { << DiffOf(tree, "modify", q) >> : q \in DOMAIN tree \ { <<"package.json">> } }
InitUpdateResolve ==
    /\ InitRun
    /\ optionsPath \in ProjectPaths
    /\ isDry \in BOOLEAN
    /\ verbose = FALSE
    /\ fs \in ResolveProjectTrees
    /\ fs0 = fs
    /\ templateTree \in ResolveTemplateTrees
    /\ templateDiffs \in ResolveDiffLists(templateTree)
\* The run given a project path other than '.'.
InitUpdatePath == InitUpdateAt(OtherProjectPaths) /\ verbose

\* process.exit(1): nothing runs after it, run()'s finally included.
Exit1 == pc' = "exited" /\ exitCode' = 1

pkgJsonPath == join(optionsPath, <<"package.json">>)

GetHashOk ==
    /\ pc = "getHash"
    /\ currentHash' = HeadHash
    /\ pc' = "placeholder"
    /\ UNCHANGED <<pureVars, optionsPath, isDry, verbose, fs, fs0, templateTree, templateDiffs, cloned,
                   diffs, filteredDiffs, projectWorkspaces, idx, wsIdx, wsDiffs, resolved,
                   writes, logs, console, exitCode>>

GetHashFails ==
    /\ pc = "getHash"
    /\ Log(<<"Error: Failed to get current template hash">>)
    /\ Exit1
    /\ UNCHANGED <<pureVars, optionsPath, isDry, verbose, fs, fs0, templateTree, templateDiffs,
                   currentHash, cloned, diffs, filteredDiffs, projectWorkspaces, idx, wsIdx,
                   wsDiffs, resolved, writes>>

\* The root manifest with whare.version taken out and the placeholder put in
\* (its text as written back).
placeholderFor(previousWhareVersion) ==
    Str(<<"<">> \o (IF previousWhareVersion.t = "str" THEN previousWhareVersion.s
                    ELSE <<"undefined">>) \o <<">">>)
whareWithPlaceholder(whare) ==
    Obj(ObjSet(ObjDelete(whare, <<"version">>), <<"whareVersionPlaceholderDONOTUSE">>,
               placeholderFor(ObjGet(whare, <<"version">>))))
pkgJsonWithPlaceholder(pkgJson) ==
    Obj(ObjSet(pkgJson, <<"whare">>, whareWithPlaceholder(Spread(ObjGet(pkgJson, <<"whare">>)))))
withPlaceholder(pkgJsonContents) ==
    JSON_stringify(pkgJsonWithPlaceholder(JSON_parse(pkgJsonContents).v.o))

WritePlaceholder ==
    /\ pc = "placeholder"
    /\ fs' = writeFile(fs, pkgJsonPath, withPlaceholder(fs[pkgJsonPath]))
    /\ writes' = Append(writes, [by |-> "placeholder", op |-> "write",
                                 path |-> pkgJsonPath, src |-> <<>>,
                                 workspace |-> <<>>])
    /\ pc' = "clone"
    /\ UNCHANGED <<pureVars, optionsPath, isDry, verbose, fs0, templateTree, templateDiffs, currentHash,
                   cloned, diffs, filteredDiffs, projectWorkspaces, idx, wsIdx, wsDiffs,
                   resolved, logs, console, exitCode>>

CloneOk ==
    /\ pc = "clone"
    /\ cloned' = TRUE
    /\ pc' = "diff"
    /\ UNCHANGED <<pureVars, optionsPath, isDry, verbose, fs, fs0, templateTree, templateDiffs,
                   currentHash, diffs, filteredDiffs, projectWorkspaces, idx, wsIdx, wsDiffs,
                   resolved, writes, logs, console, exitCode>>

\* cloneTemplate catches the failure, logs it and returns.
CloneFails ==
    /\ pc = "clone"
    /\ cloned' = FALSE
    /\ Log(<<"Error: Failed to clone template">>)
    /\ pc' = "diff"
    /\ UNCHANGED <<pureVars, optionsPath, isDry, verbose, fs, fs0, templateTree, templateDiffs,
                   currentHash, diffs, filteredDiffs, projectWorkspaces, idx, wsIdx, wsDiffs,
                   resolved, writes, exitCode>>

GitDiffOk ==
    /\ pc = "diff"
    /\ cloned
    /\ diffs' = templateDiffs
    /\ pc' = "check"
    /\ UNCHANGED <<pureVars, optionsPath, isDry, verbose, fs, fs0, templateTree, templateDiffs,
                   currentHash, cloned, filteredDiffs, projectWorkspaces, idx, wsIdx, wsDiffs,
                   resolved, writes, logs, console, exitCode>>

\* git diff or git show fails: always in a directory the clone did not fill.
GitDiffFails ==
    /\ pc = "diff"
    /\ Log(<<"Error: Failed to get repo diffs">>)
    /\ Exit1
    /\ UNCHANGED <<pureVars, optionsPath, isDry, verbose, fs, fs0, templateTree, templateDiffs,
                   currentHash, cloned, diffs, filteredDiffs, projectWorkspaces, idx, wsIdx,
                   wsDiffs, resolved, writes>>

NoChanges ==
    /\ pc = "check"
    /\ Len(diffs) = 0
    /\ Log(<<"No changes found in template">>)
    /\ pc' = "returned"
    /\ UNCHANGED <<pureVars, optionsPath, isDry, verbose, fs, fs0, templateTree, templateDiffs,
                   currentHash, cloned, diffs, filteredDiffs, projectWorkspaces, idx, wsIdx,
                   wsDiffs, resolved, writes, exitCode>>

\* path.join(basePath, inputPath) for a string of segments and separators:
\* the segments after basePath; a trailing separator is kept, here as a last
\* empty segment.
joinString(basePath, inputPath) ==
    basePath \o SelectSeq(inputPath, LAMBDA tok : tok # "/")
             \o (IF inputPath # <<>> /\ inputPath[Len(inputPath)] = "/" THEN <<"">> ELSE <<>>)
normalizeWorkspacePath(basePath, inputPath) ==
    joinString(basePath,
               IF inputPath # <<>> /\ inputPath[1] = "./" THEN Tail(inputPath) ELSE inputPath)

\* (pkgJson.whare?.ignoredWorkspaces || []).map(normalizeWorkspacePath), of
\* the root manifest as read at the start of the run.
ignoredWorkspacesOf(pkgJson) ==
    { normalizeWorkspacePath(optionsPath, e.v.s) :
        e \in Range(Spread(ObjGet(Spread(ObjGet(pkgJson, <<"whare">>)),
                                 <<"ignoredWorkspaces">>))) }
ignoredWorkspaces == ignoredWorkspacesOf(JSON_parse(fs0[pkgJsonPath]).v.o)

\* filteredDiffs and projectWorkspaces, both computed before the dry check.
FilterDiffs ==
    /\ pc = "check"
    /\ Len(diffs) # 0
    /\ filteredDiffs' = SelectSeq(diffs, LAMBDA d : basename(d.path) \notin DEFAULT_IGNORED_FILES)
    /\ \E packages \in Orders(findWorkspaces(fs, join(optionsPath, <<"packages">>))),
          apps \in Orders(findWorkspaces(fs, join(optionsPath, <<"apps">>))) :
            projectWorkspaces' =
                SelectSeq(packages \o apps, LAMBDA w : w \notin ignoredWorkspaces)
    /\ pc' = IF isDry THEN "dry" ELSE "root"
    /\ idx' = 1
    /\ UNCHANGED <<pureVars, optionsPath, isDry, verbose, fs, fs0, templateTree, templateDiffs,
                   currentHash, cloned, diffs, wsIdx, wsDiffs, resolved, writes, logs,
                   console, exitCode>>

DryReport ==
    /\ pc = "dry"
    /\ Log(<<"Would update project", "Found changes in template",
             "Found workspaces to potentially update">>
           \o (IF ignoredWorkspaces # {} THEN <<"Ignoring workspaces">> ELSE <<>>)
           \o <<"Ignored files">>)
    /\ pc' = "returned"
    /\ UNCHANGED <<pureVars, optionsPath, isDry, verbose, fs, fs0, templateTree, templateDiffs,
                   currentHash, cloned, diffs, filteredDiffs, projectWorkspaces, idx, wsIdx,
                   wsDiffs, resolved, writes, exitCode>>

isRootDiff_OutsidePackages(diff) == ~startsWithDir(diff.path, <<"packages">>)
isRootDiff(diff) ==
    ~startsWithDir(diff.path, <<"packages">>) /\ ~startsWithDir(diff.path, <<"apps">>)
rootDiffs_Reversed ==
    [i \in 1..Len(SelectSeq(filteredDiffs, isRootDiff)) |->
        SelectSeq(filteredDiffs, isRootDiff)[Len(SelectSeq(filteredDiffs, isRootDiff)) + 1 - i]]
rootDiffs == SelectSeq(filteredDiffs, isRootDiff)

\* What one applyDiff call leaves in the record of writes.
WriteOf(diff, source, workspacePath) ==
    [by |-> "applyDiff", op |-> IF diff.type = "delete" THEN "unlink" ELSE "write",
     path |-> join(optionsPath, diff.path), src |-> source, workspace |-> workspacePath]

ApplyRootDiff ==
    /\ pc = "root"
    /\ idx <= Len(rootDiffs)
    /\ fs' = applyDiff(fs, optionsPath, rootDiffs[idx])
    /\ writes' = Append(writes, WriteOf(rootDiffs[idx], rootDiffs[idx].path, <<>>))
    /\ Log(applyDiffLogs(fs, optionsPath, rootDiffs[idx]))
    /\ idx' = idx + 1
    /\ UNCHANGED <<pureVars, pc, optionsPath, isDry, verbose, fs0, templateTree, templateDiffs,
                   currentHash, cloned, diffs, filteredDiffs, projectWorkspaces, wsIdx,
                   wsDiffs, resolved, exitCode>>

EndRootDiffs ==
    /\ pc = "root"
    /\ idx > Len(rootDiffs)
    /\ pc' = "workspaces"
    /\ wsIdx' = 1
    /\ UNCHANGED <<pureVars, optionsPath, isDry, verbose, fs, fs0, templateTree, templateDiffs,
                   currentHash, cloned, diffs, filteredDiffs, projectWorkspaces, idx, wsDiffs,
                   resolved, writes, logs, console, exitCode>>

\* The entries under templateRelativePath, each with that prefix replaced by
\* workspacePath, and the template path it came from.
workspaceDiffs(templateRelativePath, workspacePath) ==
    LET under == SelectSeq(filteredDiffs,
                           LAMBDA d : startsWithDir(d.path, templateRelativePath))
    IN  [i \in 1..Len(under) |->
            [type |-> under[i].type,
             path |-> join(workspacePath,
                           SubSeq(under[i].path, Len(templateRelativePath) + 1,
                                  Len(under[i].path))),
             content |-> under[i].content,
             src |-> under[i].path]]

\* (a loop body that tries the generic workspace before the named one)
resolveWith_GenericFirst(workspaceInfo, templateWorkspacePath, templatePath) ==
    IF templatePath # <<>>
    THEN [kind |-> "fallback", template |-> templatePath,
          diffs |-> workspaceDiffs(templatePath, workspaceInfo.path)]
    ELSE IF templateWorkspacePath # <<>>
    THEN [kind |-> "named", template |-> templateWorkspacePath,
          diffs |-> workspaceDiffs(templateWorkspacePath, workspaceInfo.path)]
    ELSE [kind |-> "none", template |-> <<>>, diffs |-> <<>>]

\* How the loop body resolves one readable workspace: the kind of template
\* workspace it found, that workspace, and the entries to apply.
resolveWith(workspaceInfo, templateWorkspacePath, templatePath) ==
    IF templateWorkspacePath # <<>>
    THEN [kind |-> "named", template |-> templateWorkspacePath,
          diffs |-> workspaceDiffs(templateWorkspacePath, workspaceInfo.path)]
    ELSE IF templatePath # <<>>
    THEN [kind |-> "fallback", template |-> templatePath,
          diffs |-> workspaceDiffs(templatePath, workspaceInfo.path)]
    ELSE [kind |-> "none", template |-> <<>>, diffs |-> <<>>]
resolveWorkspace(workspaceInfo) ==
    resolveWith(workspaceInfo,
                findMatchingTemplateWorkspace(workspaceInfo, templateTree),
                IF startsWithPath(workspaceInfo.path, join(optionsPath, <<"packages">>))
                THEN getTemplateWorkspaces(templateTree).templateLibrary
                ELSE getTemplateWorkspaces(templateTree).templateApp)

WorkspacePending == pc = "workspaces" /\ wsIdx <= Len(projectWorkspaces)
workspaceInfoNow == getWorkspaceInfo(fs, projectWorkspaces[wsIdx])

WorkspaceUnreadable ==
    /\ WorkspacePending
    /\ ~workspaceInfoNow.ok
    /\ Log(<<"Warning: Could not read package.json for workspace">>)
    /\ resolved' = Append(resolved, [workspace |-> projectWorkspaces[wsIdx],
                                     packageName |-> Undef,
                                     kind |-> "unreadable", template |-> <<>>])
    /\ wsIdx' = wsIdx + 1
    /\ UNCHANGED <<pureVars, pc, optionsPath, isDry, verbose, fs, fs0, templateTree, templateDiffs,
                   currentHash, cloned, diffs, filteredDiffs, projectWorkspaces, idx, wsDiffs,
                   writes, exitCode>>

WorkspaceResolvedAs(workspaceInfo, r, kind) ==
    /\ workspaceInfo.ok
    /\ r.kind = kind
    /\ wsDiffs' = r.diffs
    /\ resolved' = Append(resolved, [workspace |-> workspaceInfo.path,
                                     packageName |-> workspaceInfo.packageName,
                                     kind |-> r.kind, template |-> r.template])
    /\ Log(IF kind = "fallback" /\ Len(r.diffs) > 0
           THEN <<"Applying template changes">>
           ELSE IF kind = "none"
           THEN <<"Note: No matching template workspace found">>
           ELSE <<>>)
WorkspaceInfoResolved(workspaceInfo, kind) ==
    WorkspaceResolvedAs(workspaceInfo, resolveWorkspace(workspaceInfo), kind)
WorkspaceResolved(kind) ==
    /\ WorkspacePending
    /\ WorkspaceInfoResolved(workspaceInfoNow, kind)
    /\ pc' = "apply"
    /\ idx' = 1
    /\ UNCHANGED <<pureVars, optionsPath, isDry, verbose, fs, fs0, templateTree, templateDiffs,
                   currentHash, cloned, diffs, filteredDiffs, projectWorkspaces, wsIdx,
                   writes, exitCode>>

WorkspaceMatched == WorkspaceResolved("named")
WorkspaceFallback == WorkspaceResolved("fallback")
WorkspaceUnmatched == WorkspaceResolved("none")

ApplyWorkspaceDiff ==
    /\ pc = "apply"
    /\ idx <= Len(wsDiffs)
    /\ fs' = applyDiff(fs, optionsPath, wsDiffs[idx])
    /\ writes' = Append(writes, WriteOf(wsDiffs[idx], wsDiffs[idx].src,
                                        projectWorkspaces[wsIdx]))
    /\ Log(applyDiffLogs(fs, optionsPath, wsDiffs[idx]))
    /\ idx' = idx + 1
    /\ UNCHANGED <<pureVars, pc, optionsPath, isDry, verbose, fs0, templateTree, templateDiffs,
                   currentHash, cloned, diffs, filteredDiffs, projectWorkspaces, wsIdx,
                   wsDiffs, resolved, exitCode>>

EndWorkspace ==
    /\ pc = "apply"
    /\ idx > Len(wsDiffs)
    /\ wsIdx' = wsIdx + 1
    /\ wsDiffs' = <<>>
    /\ pc' = "workspaces"
    /\ UNCHANGED <<pureVars, optionsPath, isDry, verbose, fs, fs0, templateTree, templateDiffs,
                   currentHash, cloned, diffs, filteredDiffs, projectWorkspaces, idx,
                   resolved, writes, logs, console, exitCode>>

\* fileContents.replace(/"whareVersionPlaceholderDONOTUSE":\s*"<[^>]+>"/,
\* `"version": "${currentHash}"`): the first placeholder property of the text,
\* written as JSON.stringify writes it, becomes the version property.
placeholderAt(l, j) ==
    /\ j + 9 <= Len(l)
    /\ SubSeq(l, j, j + 6) = <<Q, "whareVersionPlaceholderDONOTUSE", Q, ":", SPACE, Q, "<">>
    /\ l[j + 7] # ">"
    /\ \E k \in (j + 8)..(Len(l) - 1) :
          l[k] = ">" /\ l[k + 1] = Q /\ \A h \in (j + 7)..(k - 1) : l[h] # ">"
replacePlaceholderInLine(l, hash) ==
    LET hits == { j \in 1..Len(l) : placeholderAt(l, j) }
    IN  IF hits = {} THEN l
        ELSE LET j == CHOOSE h \in hits : \A g \in hits : h <= g
                 k == CHOOSE h \in (j + 8)..(Len(l) - 1) :
                        l[h] = ">" /\ \A g \in (j + 7)..(h - 1) : l[g] # ">"
             IN  SubSeq(l, 1, j - 1) \o <<Q, "version", Q, ":", SPACE, Q>> \o hash \o <<Q>>
                     \o SubSeq(l, k + 2, Len(l))
replacePlaceholder(fileContents, hash) ==
    LET hits == { i \in 1..Len(fileContents) :
                    replacePlaceholderInLine(fileContents[i], hash) # fileContents[i] }
    IN  IF hits = {} THEN fileContents
        ELSE LET i == CHOOSE h \in hits : \A g \in hits : h <= g
             IN  [fileContents EXCEPT ![i] = replacePlaceholderInLine(fileContents[i], hash)]

\* logger.writeLogs(): what it prints for the buffer it writes to a file.
writeLogsPrints(buffer) ==
    IF ~verbose /\ Len(buffer) > 0 THEN <<"Logs written to">> ELSE <<>>

\* After the last workspace: the root manifest is read, the placeholder
\* replaced, the text written back.  readFile throws when the file is gone,
\* and run()'s finally writes the logs on the way out.
RewriteVersion ==
    /\ pc = "workspaces"
    /\ wsIdx > Len(projectWorkspaces)
    /\ fs' = IF isFile(fs, pkgJsonPath)
             THEN writeFile(fs, pkgJsonPath, replacePlaceholder(fs[pkgJsonPath], currentHash))
             ELSE fs
    /\ writes' = IF isFile(fs, pkgJsonPath)
                 THEN Append(writes, [by |-> "rewrite", op |-> "write",
                                      path |-> pkgJsonPath, src |-> <<>>,
                                 workspace |-> <<>>])
                 ELSE writes
    /\ logs' = IF isFile(fs, pkgJsonPath) /\ ~verbose
               THEN Append(logs, "Update completed! Review the changes")
               ELSE logs
    /\ console' = IF ~isFile(fs, pkgJsonPath) THEN console \o writeLogsPrints(logs)
                  ELSE IF verbose
                  THEN Append(console, "Update completed! Review the changes")
                  ELSE console
    /\ pc' = IF isFile(fs, pkgJsonPath) THEN "returned" ELSE "threw"
    /\ exitCode' = IF isFile(fs, pkgJsonPath) THEN exitCode ELSE 1
    /\ UNCHANGED <<pureVars, optionsPath, isDry, verbose, fs0, templateTree, templateDiffs, currentHash,
                   cloned, diffs, filteredDiffs, projectWorkspaces, idx, wsIdx, wsDiffs,
                   resolved>>

\* updateProject returned: run() logs the success of a non-dry run, and its
\* finally writes the buffered logs to a file and prints where.
RunReturns ==
    /\ pc = "returned"
    /\ LET staged == IF isDry THEN <<>> ELSE <<"Successfully staged update changes!">>
       IN  /\ logs' = IF verbose THEN logs ELSE logs \o staged
           /\ console' = IF verbose THEN console \o staged
                         ELSE IF Len(logs \o staged) > 0
                         THEN Append(console, "Logs written to")
                         ELSE console
    /\ pc' = "done"
    /\ exitCode' = 0
    /\ UNCHANGED <<pureVars, optionsPath, isDry, verbose, fs, fs0, templateTree, templateDiffs,
                   currentHash, cloned, diffs, filteredDiffs, projectWorkspaces, idx, wsIdx,
                   wsDiffs, resolved, writes>>

Next ==
    \/ GetHashOk
    \/ GetHashFails
    \/ WritePlaceholder
    \/ CloneOk
    \/ CloneFails
    \/ GitDiffOk
    \/ GitDiffFails
    \/ NoChanges
    \/ FilterDiffs
    \/ DryReport
    \/ ApplyRootDiff
    \/ EndRootDiffs
    \/ WorkspaceUnreadable
    \/ WorkspaceMatched
    \/ WorkspaceFallback
    \/ WorkspaceUnmatched
    \/ ApplyWorkspaceDiff
    \/ EndWorkspace
    \/ RewriteVersion
    \/ RunReturns

Spec == InitUpdate /\ [][Next]_vars
SpecPath == InitUpdatePath /\ [][Next]_vars
SpecResolve == InitUpdateResolve /\ [][Next]_vars

-----------------------------------------------------------------------------
(* Repeated application: add/modify entries for one workspace manifest are  *)
(* applied one after the other, as successive updates do.  current holds    *)
(* the text of the manifest before the last applyDiff, incoming the content *)
(* of the entry, merged the text after it; idx counts the applications.     *)

MaxApplies == 2
ManifestPath == <<"packages", "ui", "package.json">>
ReapplyTexts ==
    { JSON_stringify(Obj(<< [k |-> <<"scripts">>, v |-> Obj(o)] >>)) : o \in SubObjects }

InitReapply ==
    /\ mode = "reapply"
    /\ current = <<>>
    /\ incoming = <<>>
    /\ merged = <<>>
    /\ mstate = "input"
    /\ tcase = NoCase
    /\ tinput = <<>>
    /\ toutput = <<>>
    /\ CompareIdle
    /\ pc = "idle"
    /\ optionsPath = <<>>
    /\ isDry = FALSE
    /\ verbose = FALSE
    /\ fs \in { TreeOf({ File(ManifestPath, text) }) : text \in ReapplyTexts }
    /\ fs0 = fs
    /\ templateTree = <<>>
    /\ templateDiffs = <<>>
    /\ currentHash = <<>>
    /\ cloned = FALSE
    /\ diffs = <<>>
    /\ filteredDiffs = <<>>
    /\ projectWorkspaces = <<>>
    /\ idx = 0
    /\ wsIdx = 0
    /\ wsDiffs = <<>>
    /\ resolved = <<>>
    /\ writes = <<>>
    /\ logs = <<>>
    /\ console = <<>>
    /\ exitCode = -1

ReapplyDiff(type, content) == [type |-> type, path |-> ManifestPath, content |-> content]

Reapply ==
    /\ mode = "reapply"
    /\ idx < MaxApplies
    /\ \E type \in {"add", "modify"}, content \in ReapplyTexts :
          /\ incoming' = content
          /\ fs' = applyDiff(fs, optionsPath, ReapplyDiff(type, content))
          /\ merged' = applyDiff(fs, optionsPath, ReapplyDiff(type, content))[ManifestPath]
          /\ Log(applyDiffLogs(fs, optionsPath, ReapplyDiff(type, content)))
    /\ current' = fs[ManifestPath]
    /\ idx' = idx + 1
    /\ UNCHANGED <<mode, mstate, tcase, tinput, toutput, valueA, valueB, changed>>
    /\ UNCHANGED <<pc, optionsPath, isDry, verbose, fs0, templateTree, templateDiffs,
                   currentHash, cloned, diffs, filteredDiffs, projectWorkspaces, wsIdx,
                   wsDiffs, resolved, writes, exitCode>>

NextReapply == Reapply
SpecReapply == InitReapply /\ [][NextReapply]_vars

-----------------------------------------------------------------------------
(* Reading a merged text.  A conflict block is five lines: the local       *)
(* delimiter, the local value line, the midpoint, the template value line  *)
(* (with its comment) and the closing delimiter.  Resolving a text to one  *)
(* side keeps that side's line of every block and drops the other four.    *)

IsDelimiter(l) == l = LocalOpen \/ l = Midpoint \/ l = TemplateClose

stripComment(l) ==
    IF l # <<>> /\ l[Len(l)] = FromTemplate THEN SubSeq(l, 1, Len(l) - 1) ELSE l

IsBlockAt(text, i) ==
    /\ i >= 1
    /\ i + 4 <= Len(text)
    /\ text[i] = LocalOpen
    /\ ~IsDelimiter(text[i + 1])
    /\ text[i + 2] = Midpoint
    /\ ~IsDelimiter(text[i + 3])
    /\ text[i + 4] = TemplateClose

Blocks(text) == { i \in 1..Len(text) : IsBlockAt(text, i) }

RECURSIVE resolveFrom(_, _, _)
resolveFrom(text, i, side) ==
    IF i > Len(text) THEN <<>>
    ELSE IF IsBlockAt(text, i)
    THEN << IF side = "local" THEN text[i + 1] ELSE stripComment(text[i + 3]) >>
             \o resolveFrom(text, i + 5, side)
    ELSE <<text[i]>> \o resolveFrom(text, i + 1, side)
resolve(text, side) == resolveFrom(text, 1, side)

\* The manifest a reader gets from the merged text by taking one side.
Resolved(text, side) == JSON_parse(resolve(text, side))

\* The lines of a top-level object field: the set of the indices between
\* the line that opens it and the line that closes it.
fieldLines(text, field) ==
    LET opens == { i \in 1..Len(text) :
                     text[i] = Indent(1) \o <<Q>> \o field \o <<Q, ":", SPACE, "{">> }
        closes == { j \in 1..Len(text) :
                     text[j] = Indent(1) \o <<"}">> \/ text[j] = Indent(1) \o <<"}", ",">> }
    IN  IF opens = {} THEN {}
        ELSE LET from == CHOOSE i \in opens : TRUE
                 to == CHOOSE j \in closes : j > from /\ \A h \in closes : h > from => j <= h
             IN  (from + 1)..(to - 1)

\* The two value lines of the block at i, read as entries of a field.
blockLocal(text, i) == parseLine(text[i + 1], 2)
blockTemplate(text, i) == parseLine(stripComment(text[i + 3]), 2)

\* What a reader sees of a merge: the two manifests that went in, the merged
\* text resolved to either side, and the conflict blocks of each field.
MergeView ==
    [cur |-> JSON_parse(current).v.o,
     inc |-> JSON_parse(incoming).v.o,
     sides |-> << Resolved(merged, "local"), Resolved(merged, "template") >>,
     blocks |-> [f \in PACKAGE_JSON_MERGE_FIELDS |->
                   LET here == Blocks(merged) \cap fieldLines(merged, f)
                   IN  { [at |-> i, local |-> blockLocal(merged, i),
                          template |-> blockTemplate(merged, i),
                          commented |-> merged[i + 3] # stripComment(merged[i + 3])] :
                         i \in here }]]

MergeDone == mode = "merge" /\ mstate = "done"

\* Both readings of the merged text give value v for top-level key k.
MergedTopIs(view, k, v) ==
    \A n \in 1..2 :
        /\ view.sides[n].ok
        /\ ObjGet(view.sides[n].v.o, k) = v
        /\ ObjHas(view.sides[n].v.o, k) = (v # Undef)

\* The conflict blocks of field f that name sub-key k on either side.
blocksFor(view, f, k) ==
    { b \in view.blocks[f] : (b.local.ok /\ b.local.k = k)
                               \/ (b.template.ok /\ b.template.k = k) }

\* Both readings of the merged text give value v for sub-key k of field f,
\* and no conflict block of the field names k.
MergedSubIsPlain(view, f, k, v) ==
    /\ blocksFor(view, f, k) = {}
    /\ \A n \in 1..2 :
        /\ view.sides[n].ok
        /\ ObjGet(view.sides[n].v.o, f).t = "obj"
        /\ ObjGet(ObjGet(view.sides[n].v.o, f).o, k) = v

\* Exactly one conflict block of field f names k; its local line holds k
\* with value cv, its template line k with value iv and the comment.
MergedSubIsConflict(view, f, k, cv, iv) ==
    /\ Cardinality(blocksFor(view, f, k)) = 1
    /\ \A b \in blocksFor(view, f, k) :
        /\ b.local.ok /\ b.local.k = k /\ b.local.kind = "str" /\ Str(b.local.s) = cv
        /\ b.commented
        /\ b.template.ok /\ b.template.k = k /\ b.template.kind = "str"
        /\ Str(b.template.s) = iv

\* The merge-candidate fields the incoming manifest holds as objects.
IncomingMergeFields(view) ==
    { f \in PACKAGE_JSON_MERGE_FIELDS : ObjGet(view.inc, f).t = "obj" }

-----------------------------------------------------------------------------
(* Claims about packageJsonHandler.merge (checked under SpecMerge)          *)

\* C1: after a merge of two parseable manifests, every protected key has in
\* the merged manifest the value it had in the current manifest; a protected
\* key absent from current is absent from the merged manifest, whatever the
\* incoming manifest holds for it.
C1_ProtectedKept ==
    MergeDone =>
        LET view == MergeView
        IN  \A k \in PACKAGE_JSON_PROTECTED_FIELDS :
                MergedTopIs(view, k, ObjGet(view.cur, k))

\* C1 witness: merge has run on a current manifest without a name and an
\* incoming manifest that supplies one.
C1_Witness ==
    /\ MergeDone
    /\ ~ObjHas(MergeView.cur, <<"name">>)
    /\ ObjHas(MergeView.inc, <<"name">>)
    /\ ObjHas(MergeView.cur, <<"scripts">>)

\* C2: in a merge-candidate field, an incoming sub-key that current holds
\* with an equal value keeps the current value and gets no conflict; one that
\* current holds with a different value gets exactly one conflict block, the
\* current value on the local side and the incoming value on the template
\* side; sub-keys of current that incoming does not mention are unchanged.
C2_SubKeyMerge ==
    MergeDone =>
        LET view == MergeView
        IN  \A f \in IncomingMergeFields(view) :
            LET cur == Spread(ObjGet(view.cur, f))
                inc == ObjGet(view.inc, f).o
            IN  /\ \A i \in 1..Len(inc) :
                     ObjHas(cur, inc[i].k) =>
                        IF ObjGet(cur, inc[i].k) = inc[i].v
                        THEN MergedSubIsPlain(view, f, inc[i].k, ObjGet(cur, inc[i].k))
                        ELSE MergedSubIsConflict(view, f, inc[i].k,
                                                 ObjGet(cur, inc[i].k), inc[i].v)
                /\ \A j \in 1..Len(cur) :
                     ~ObjHas(inc, cur[j].k) => MergedSubIsPlain(view, f, cur[j].k, cur[j].v)

\* C2 witness: merge has run on scripts objects that share one sub-key with
\* different values, current holding another sub-key incoming does not
\* mention.
C2_Witness ==
    /\ MergeDone
    /\ LET cur == Spread(ObjGet(MergeView.cur, <<"scripts">>))
           inc == ObjGet(MergeView.inc, <<"scripts">>).o
       IN  /\ \E i \in 1..Len(inc) :
                 ObjHas(cur, inc[i].k) /\ ObjGet(cur, inc[i].k) # inc[i].v
           /\ \E j \in 1..Len(cur) : ~ObjHas(inc, cur[j].k)

\* C3: a sub-key of a merge-candidate field that only the incoming object
\* holds is in the merged field with the incoming value and no conflict
\* block, also when current has no such field.
C3_NewSubKeys ==
    MergeDone =>
        LET view == MergeView
        IN  \A f \in IncomingMergeFields(view) :
            LET cur == Spread(ObjGet(view.cur, f))
                inc == ObjGet(view.inc, f).o
            IN  \A i \in 1..Len(inc) :
                    ~ObjHas(cur, inc[i].k) => MergedSubIsPlain(view, f, inc[i].k, inc[i].v)

\* C3 witness: merge has run on a current manifest with no scripts field and
\* an incoming manifest whose scripts hold two sub-keys.
C3_Witness ==
    /\ MergeDone
    /\ ~ObjHas(MergeView.cur, <<"scripts">>)
    /\ ObjHas(MergeView.cur, <<"name">>)
    /\ Len(ObjGet(MergeView.inc, <<"scripts">>).o) = 2

\* C4: every top-level key of incoming that is neither protected nor
\* merge-candidate has the incoming value in the merged manifest; every
\* top-level key that only current holds keeps its current value.
C4_OtherKeysReplaced ==
    MergeDone =>
        LET view == MergeView
        IN  /\ \A i \in 1..Len(view.inc) :
                  view.inc[i].k \notin
                      (PACKAGE_JSON_PROTECTED_FIELDS \cup PACKAGE_JSON_MERGE_FIELDS)
                  => MergedTopIs(view, view.inc[i].k, view.inc[i].v)
            /\ \A j \in 1..Len(view.cur) :
                  ~ObjHas(view.inc, view.cur[j].k)
                  => MergedTopIs(view, view.cur[j].k, view.cur[j].v)

\* C4 witness: merge has run where both manifests hold type with different
\* values and current holds a key incoming does not.
C4_Witness ==
    /\ MergeDone
    /\ ObjHas(MergeView.cur, <<"type">>)
    /\ ObjHas(MergeView.inc, <<"type">>)
    /\ ObjGet(MergeView.cur, <<"type">>) # ObjGet(MergeView.inc, <<"type">>)
    /\ \E j \in 1..Len(MergeView.cur) : ~ObjHas(MergeView.inc, MergeView.cur[j].k)

-----------------------------------------------------------------------------
(* Claims about transformToGitConflicts (checked under SpecTransform)       *)

TransformDone == mode = "transform" /\ mstate = "done"

\* How many lines of text are the line l.
Count(text, l) == Cardinality({ i \in 1..Len(text) : text[i] = l })

\* The line JSON.stringify writes for sub-key key with a string value.
valueLine(key, value, comma) ==
    <<IND, IND, Q>> \o key \o <<Q, ":", SPACE, Q>> \o value \o <<Q>>
        \o (IF comma THEN <<",">> ELSE <<>>)

\* C5: the rendering of a mapping with the sentinel keys of one divergent
\* key holds exactly one block; its local line is the key with the current
\* value, its template line the key with the incoming value and the comment;
\* both end with a comma exactly when a sibling key follows the block.
C5_OneBlockRendered ==
    TransformDone =>
        LET followed == tcase.pos < Len(tcase.siblings)
        IN  /\ Count(toutput, LocalOpen) = 1
            /\ Count(toutput, Midpoint) = 1
            /\ Count(toutput, TemplateClose) = 1
            /\ Cardinality(Blocks(toutput)) = 1
            /\ \A i \in Blocks(toutput) :
                /\ i = 2 + tcase.pos + 1
                /\ toutput[i + 1] = valueLine(<<"dev">>, tcase.currentValue, followed)
                /\ toutput[i + 3] = valueLine(<<"dev">>, tcase.incomingValue, followed)
                                      \o <<FromTemplate>>

\* C5 witness: the block has been rendered between two sibling keys, for
\* values that hold a comma on one side.
C5_Witness ==
    /\ TransformDone
    /\ tcase.pos = 1
    /\ Len(tcase.siblings) = 2
    /\ tcase.currentValue = <<"b", ",", "c">>

-----------------------------------------------------------------------------
(* Reading an update run *)

\* The root manifest as a reader gets it from the tree (conflict blocks
\* taken on the local side), and the revision it tracks.
rootManifest(tree) == Resolved(tree[pkgJsonPath], "local")
versionIn(manifest) ==
    IF manifest.ok THEN ObjGet(Spread(ObjGet(manifest.v.o, <<"whare">>)), <<"version">>)
    ELSE Undef
trackedVersion(tree) == versionIn(rootManifest(tree))

Reported(message) ==
    (\E i \in 1..Len(logs) : logs[i] = message)
        \/ (\E i \in 1..Len(console) : console[i] = message)

WritesBy(by) == { i \in 1..Len(writes) : writes[i].by = by }

\* updateProject returned through its empty-diff branch.
EndedInNoChanges == pc \in {"returned", "done"} /\ Len(diffs) = 0
\* A non-dry run over a non-empty diff that came to its end.
Succeeded == pc = "done" /\ ~isDry /\ Len(diffs) > 0

\* The workspace directories of the template.
templateWorkspaceDirs ==
    findWorkspaces(templateTree, <<"packages">>) \cup findWorkspaces(templateTree, <<"apps">>)
templateName(t) == optionalPackageName(getWorkspaceInfo(templateTree, t))

-----------------------------------------------------------------------------
(* Claims about updateProject (checked under Spec)                          *)

\* C6: a run whose diff is empty ends in NoChanges, has written no file of
\* the project tree (the root manifest included) and reports that no
\* changes were found.
C6_NoChangesWritesNothing ==
    EndedInNoChanges =>
        /\ Len(writes) = 0
        /\ fs = fs0
        /\ Reported("No changes found in template")

\* C7: in every successful (non-dry, non-empty-diff) run whare.version is
\* written to the new revision exactly once, after every root and workspace
\* entry has been applied, and at the end of the run whare.version is the
\* head revision; the write does not happen in a run that failed fatally.
C7_VersionRewrittenOnce ==
    /\ Succeeded =>
          /\ Cardinality(WritesBy("rewrite")) = 1
          /\ \A i \in WritesBy("rewrite"), j \in WritesBy("applyDiff") : j < i
          /\ trackedVersion(fs) = Str(HeadHash)
    /\ pc = "exited" => WritesBy("rewrite") = {}

\* C8: a run in which the revision lookup, the clone or the diff fails is
\* fatal: it exits with a non-zero status and has written nothing to the
\* project tree, the root manifest being what it was before the run.
C8_FatalWritesNothing ==
    /\ pc = "exited" =>
          /\ exitCode # 0
          /\ Len(writes) = 0
          /\ fs = fs0
    /\ (pc \in {"check", "dry", "root", "workspaces", "apply", "returned", "done"}) => cloned

\* C9: a dry run applies no root or workspace entry, does not rewrite the
\* tracked revision and leaves every file of the project tree unchanged.
C9_DryLeavesTree ==
    isDry =>
        /\ WritesBy("applyDiff") = {}
        /\ WritesBy("rewrite") = {}
        /\ fs = fs0

\* C10 (as stated): a project workspace whose directory basename differs
\* from a template workspace's but whose manifest name equals that template
\* workspace's name resolves to that template workspace, not to the generic
\* fallback.
C10_ResolvesByName ==
    \A i \in 1..Len(resolved) : \A t \in templateWorkspaceDirs :
        (/\ resolved[i].kind # "unreadable"
         /\ basename(t) # basename(resolved[i].workspace)
         /\ templateName(t) = resolved[i].packageName)
            => (resolved[i].kind = "named" /\ resolved[i].template = t)

\* C10 (amended): a named project workspace resolves by name exactly when
\* the template has, under packages/ or apps/, a workspace directory of the
\* same basename whose manifest name equals the project workspace's, and
\* then resolves to that directory; a template workspace of another
\* basename is never what it resolves to by name, equal names or not.
C10_ResolvesByDirectoryAndName ==
    \A i \in 1..Len(resolved) :
        (resolved[i].kind # "unreadable" /\ resolved[i].packageName # Undef) =>
            /\ (resolved[i].kind = "named") <=>
                  (\E t \in templateWorkspaceDirs :
                      /\ basename(t) = basename(resolved[i].workspace)
                      /\ templateName(t) = resolved[i].packageName)
            /\ (resolved[i].kind = "named") =>
                  /\ resolved[i].template \in templateWorkspaceDirs
                  /\ basename(resolved[i].template) = basename(resolved[i].workspace)
                  /\ templateName(resolved[i].template) = resolved[i].packageName

\* C10 witness: the run has resolved a workspace by name, and has sent to the
\* generic library fallback a workspace whose name is that of a template
\* workspace in a directory of another basename.
C10_Witness ==
    /\ \E i \in 1..Len(resolved) : resolved[i].kind = "named"
    /\ \E i \in 1..Len(resolved) :
          /\ resolved[i].kind = "fallback"
          /\ \E t \in templateWorkspaceDirs :
                /\ basename(t) # basename(resolved[i].workspace)
                /\ templateName(t) = resolved[i].packageName

-----------------------------------------------------------------------------
(* Claims about a merge that fails (checked under SpecMergeBroken)          *)

MergeWarning == "Warning: Failed to merge package.json, using current version"

\* C11: merge does not raise: when one of the two texts does not parse, it
\* returns, what it returns is the current text as it was given, and it has
\* logged one warning.
C11_MergeFailureReturnsCurrent ==
    (MergeDone /\ mergeFails(current, incoming)) =>
        /\ merged = current
        /\ Reported(MergeWarning)
        /\ Len(logs) + Len(console) = 1

\* C11 witness: merge has run on a current text that parses and an incoming
\* text that does not.
C11_Witness ==
    /\ MergeDone
    /\ JSON_parse(current).ok
    /\ ~JSON_parse(incoming).ok
    /\ incoming # <<>>
    /\ merged = current

-----------------------------------------------------------------------------
(* Claims about what an update run leaves alone (checked under Spec)        *)

\* The directory a listed entry names: the entry resolved against the
\* project root, a trailing separator naming the same directory.
listedDirectory(entry) ==
    LET resolved_ == normalizeWorkspacePath(optionsPath, entry)
    IN  IF resolved_ # <<>> /\ resolved_[Len(resolved_)] = ""
        THEN SubSeq(resolved_, 1, Len(resolved_) - 1) ELSE resolved_

\* The project workspaces the root manifest lists in whare.ignoredWorkspaces.
listedWorkspaces ==
    { listedDirectory(e.v.s) :
        e \in Range(Spread(ObjGet(Spread(ObjGet(JSON_parse(fs0[pkgJsonPath]).v.o, <<"whare">>)),
                                 <<"ignoredWorkspaces">>))) }
        \cap (findWorkspaces(fs0, join(optionsPath, <<"packages">>))
                \cup findWorkspaces(fs0, join(optionsPath, <<"apps">>)))

\* No file under directory w has been created, overwritten or deleted.
Untouched(w) ==
    /\ \A i \in 1..Len(writes) : ~startsWithDir(writes[i].path, w)
    /\ \A q \in DOMAIN fs \cup DOMAIN fs0 :
          startsWithDir(q, w) => (q \in DOMAIN fs /\ q \in DOMAIN fs0 /\ fs[q] = fs0[q])

\* C12: a project workspace listed in the root manifest's
\* whare.ignoredWorkspaces is excluded from the update: at no point of the
\* run has a file inside its directory been created, overwritten or deleted.
C12_IgnoredWorkspaceUntouched ==
    mode = "update" => \A w \in listedWorkspaces : Untouched(w)

\* The lockfile names, and the diff entries the template lists for one.
Lockfiles == { "bun.lockb", "bun.lock" }
lockfileDiffs == SelectSeq(diffs, LAMBDA d : basename(d.path) \in Lockfiles)

\* C13: a diff entry whose basename is bun.lockb or bun.lock is never applied,
\* at the root or inside a workspace, whatever its kind: no applyDiff call
\* comes from such an entry and every lockfile of the project stays as it was.
C13_LockfilesNeverApplied ==
    mode = "update" =>
        /\ \A i \in 1..Len(writes) :
              writes[i].by = "applyDiff" =>
                  (basename(writes[i].src) \notin Lockfiles
                     /\ basename(writes[i].path) \notin Lockfiles)
        /\ \A q \in DOMAIN fs0 :
              basename(q) \in Lockfiles => (q \in DOMAIN fs /\ fs[q] = fs0[q])

\* A finished run whose diff listed a lockfile next to an entry it applied.
C13_Witness ==
    /\ mode = "update"
    /\ pc = "done"
    /\ ~isDry
    /\ lockfileDiffs # <<>>
    /\ \E d \in Range(lockfileDiffs) : isFile(fs0, join(optionsPath, d.path))
    /\ WritesBy("applyDiff") # {}

\* The generic template workspace of the category directory w lives under.
genericFor(w) ==
    IF startsWithDir(w, join(optionsPath, <<"packages">>))
    THEN <<"packages", "template-library">>
    ELSE <<"apps", "template-app">>
GenericDirs == { <<"packages", "template-library">>, <<"apps", "template-app">> }

\* The template has a workspace directory of w's basename whose manifest
\* carries the name packageName.
hasNamedMatch(w, packageName) ==
    \E t \in templateWorkspaceDirs :
        basename(t) = basename(w) /\ templateName(t) = packageName

\* The applyDiff calls that brought an entry of the generic workspace g into
\* the project workspace w.
genericWritesInto(g, w) ==
    { j \in WritesBy("applyDiff") :
        startsWithDir(writes[j].src, g) /\ writes[j].workspace = w }

-----------------------------------------------------------------------------
(* Claims about the order of a merged field (checked under SpecMerge)        *)

\* The lines of field f in the merged text that hold sub-key k, as a plain
\* entry or as a value line of a conflict block.
linesOf(text, f, k) ==
    { i \in fieldLines(text, f) :
        parseLine(stripComment(text[i]), 2).ok /\ parseLine(stripComment(text[i]), 2).k = k }

\* C18: the conflict block of a diverging sub-key stands where the key stood:
\* two sub-keys of a merge-candidate field come in the merged text in the
\* order the current manifest has them, conflict block or not.
C18_ConflictKeepsPosition ==
    (MergeDone /\ ~mergeFails(current, incoming)) =>
        \A f \in IncomingMergeFields(MergeView) :
            LET entries == Spread(ObjGet(MergeView.cur, f))
            IN  \A i, j \in 1..Len(entries) :
                    i < j =>
                        \A m \in linesOf(merged, f, entries[i].k),
                           n \in linesOf(merged, f, entries[j].k) : m < n

-----------------------------------------------------------------------------
(* Claims about what a failing run tells the user (checked under Spec)       *)

\* The message was printed, or was in the buffer writeLogs wrote to the file
\* whose path it printed.
ReachedUser(message) ==
    \/ \E i \in 1..Len(console) : console[i] = message
    \/ /\ \E i \in 1..Len(console) : console[i] = "Logs written to"
       /\ \E i \in 1..Len(logs) : logs[i] = message
FatalMessages ==
    { "Error: Failed to get current template hash", "Error: Failed to get repo diffs" }

\* C16: a run that ends in a fatal failure exits with a non-zero status
\* after an error message has reached the user, on the console or in the
\* log file writeLogs flushed, with the verbose flag or without it.
C16_FatalErrorReachesUser ==
    pc = "exited" =>
        /\ exitCode # 0
        /\ \E message \in FatalMessages : ReachedUser(message)

-----------------------------------------------------------------------------
(* Claims about where and in what order entries are applied (under Spec)     *)

\* The applyDiff calls made for workspace entries.
workspaceWrites == { j \in WritesBy("applyDiff") : writes[j].workspace # <<>> }

\* C17: for every workspace entry applied, the file applyDiff creates,
\* overwrites or deletes lies inside the directory of the project workspace
\* the entry was mapped to, whatever project path the command was given.
C17_AppliedInsideWorkspace ==
    mode = "update" =>
        \A j \in workspaceWrites : startsWithDir(writes[j].path, writes[j].workspace)

\* Where the diff lists the entry of template path src.
diffIndex(src) == CHOOSE n \in 1..Len(diffs) : diffs[n].path = src
\* Where the run took up workspace w.
workspaceIndex(w) == CHOOSE n \in 1..Len(resolved) : resolved[n].workspace = w

\* C19: in a non-dry run every root entry is applied before any workspace
\* entry; the workspaces are taken one after another, the entries of one all
\* applied before the next is taken up; the entries applied at the root, or
\* in one workspace, are applied in the order the diff lists them, and so
\* are any two entries that reach the same destination path.
C19_ApplicationOrder ==
    mode = "update" =>
        \A i, j \in WritesBy("applyDiff") :
            i < j =>
                /\ writes[j].workspace = <<>> => writes[i].workspace = <<>>
                /\ (writes[i].workspace # <<>> /\ writes[j].workspace # writes[i].workspace) =>
                      workspaceIndex(writes[i].workspace) < workspaceIndex(writes[j].workspace)
                /\ writes[i].workspace = writes[j].workspace =>
                      diffIndex(writes[i].src) < diffIndex(writes[j].src)
                /\ writes[i].path = writes[j].path =>
                      diffIndex(writes[i].src) < diffIndex(writes[j].src)

\* A finished run that applied a root entry and then a workspace entry.
C19_Witness ==
    /\ mode = "update"
    /\ pc = "done"
    /\ \E i, j \in WritesBy("applyDiff") :
          /\ i < j
          /\ writes[i].workspace = <<>>
          /\ writes[j].workspace # <<>>

\* The applyDiff calls made for the diff entry of template path src: all of
\* them, and those made for workspace w (<<>> for the root).
applicationsOf(src) == { j \in WritesBy("applyDiff") : writes[j].src = src }
applicationsIn(src, w) == { j \in applicationsOf(src) : writes[j].workspace = w }

\* C20 (as stated): in a successful non-dry run every non-ignored diff entry
\* is applied exactly once: to no more than one destination, and to one.
C20_ConsumedExactlyOnce ==
    Succeeded =>
        \A n \in 1..Len(filteredDiffs) :
            Cardinality(applicationsOf(filteredDiffs[n].path)) = 1

\* The processed workspaces whose template workspace holds the entry.
takersOf(src) ==
    { i \in 1..Len(resolved) :
        resolved[i].kind \in {"named", "fallback"} /\ startsWithDir(src, resolved[i].template) }

\* C20 (amended): in a successful non-dry run an entry outside packages/ and
\* apps/ is applied exactly once, at the root; an entry under packages/ or
\* apps/ is applied once for every processed project workspace that resolved
\* (by name or by fallback) to the template workspace holding it, and
\* nowhere else: not at all when no workspace resolved to it, several times
\* when several did.  Nothing is applied that is not a non-ignored entry.
C20_ConsumedOncePerTaker ==
    Succeeded =>
        /\ \A n \in 1..Len(filteredDiffs) :
              LET src == filteredDiffs[n].path
              IN  IF startsWithDir(src, <<"packages">>) \/ startsWithDir(src, <<"apps">>)
                  THEN /\ \A i \in 1..Len(resolved) :
                            Cardinality(applicationsIn(src, resolved[i].workspace))
                                = IF i \in takersOf(src) THEN 1 ELSE 0
                       /\ Cardinality(applicationsOf(src)) = Cardinality(takersOf(src))
                  ELSE /\ Cardinality(applicationsOf(src)) = 1
                       /\ applicationsIn(src, <<>>) = applicationsOf(src)
        /\ \A j \in WritesBy("applyDiff") :
              \E n \in 1..Len(filteredDiffs) : filteredDiffs[n].path = writes[j].src

\* A successful run that applied one entry in two workspaces and left
\* another entry unapplied.
C20_Witness ==
    /\ Succeeded
    /\ \E n \in 1..Len(filteredDiffs) :
          Cardinality(applicationsOf(filteredDiffs[n].path)) = 2
    /\ \E n \in 1..Len(filteredDiffs) :
          Cardinality(applicationsOf(filteredDiffs[n].path)) = 0

\* The whare field of the root manifest of a tree, spread as an object.
whareIn(manifest) ==
    IF manifest.ok THEN Spread(ObjGet(manifest.v.o, <<"whare">>)) ELSE <<>>
\* The run has ended: run() returned, or the process exited.
Terminated == mode = "update" /\ pc \in {"done", "exited"}

\* C22: when update has ended after its precondition checks (success, no
\* changes, dry run or fatal failure) the root manifest carries a revision
\* string in whare.version, the old one or the new one, and has no
\* whareVersionPlaceholderDONOTUSE field.
C22_VersionSurvivesTermination ==
    Terminated =>
        /\ rootManifest(fs).ok
        /\ trackedVersion(fs) \in { Str(FromVersion), Str(HeadHash) }
        /\ ~ObjHas(whareIn(rootManifest(fs)), <<"whareVersionPlaceholderDONOTUSE">>)

-----------------------------------------------------------------------------
(* Claims about the data a merge keeps (checked under SpecMergeFields)      *)

\* Both readings of the merged text hold top-level key k.
MergedHasTop(view, k) ==
    \A n \in 1..2 : view.sides[n].ok /\ ObjHas(view.sides[n].v.o, k)

\* Sub-key k of field f stands in the merged text with value v: as a plain
\* entry, or on the local side of exactly one conflict block.
MergedSubKept(view, f, k, v) ==
    \/ MergedSubIsPlain(view, f, k, v)
    \/ /\ Cardinality(blocksFor(view, f, k)) = 1
       /\ \A b \in blocksFor(view, f, k) :
             b.local.ok /\ b.local.k = k /\ b.local.kind = "str" /\ Str(b.local.s) = v

\* The merge-candidate fields the current manifest holds as objects.
CurrentMergeObjects(view) ==
    { f \in PACKAGE_JSON_MERGE_FIELDS : ObjGet(view.cur, f).t = "obj" }

\* C23 (as stated): after a merge of two parseable manifests every top-level
\* key of current is in the merged text, and every sub-key of a
\* merge-candidate object of current is in it with its current value, plain
\* or on the local side of exactly one conflict block.
C23_NoLocalDataLost ==
    (MergeDone /\ ~mergeFails(current, incoming)) =>
        LET view == MergeView
        IN  /\ \A j \in 1..Len(view.cur) : MergedHasTop(view, view.cur[j].k)
            /\ \A f \in CurrentMergeObjects(view) :
                  \A j \in 1..Len(ObjGet(view.cur, f).o) :
                      MergedSubKept(view, f, ObjGet(view.cur, f).o[j].k,
                                    ObjGet(view.cur, f).o[j].v)

\* C23 (amended): every top-level key of current is in the merged text;
\* the sub-keys of a merge-candidate object of current are kept, plain or
\* on the local side of exactly one conflict block, when incoming holds the
\* field as an object or not at all; when incoming holds the field as a
\* value that is no object, the merged field is that value and the sub-keys
\* of current are gone.
C23_LocalDataKeptUnlessFieldReplaced ==
    (MergeDone /\ ~mergeFails(current, incoming)) =>
        LET view == MergeView
        IN  /\ \A j \in 1..Len(view.cur) : MergedHasTop(view, view.cur[j].k)
            /\ \A f \in CurrentMergeObjects(view) :
                  IF ObjGet(view.inc, f).t \in {"obj", "arr", "undef"}
                  THEN \A j \in 1..Len(ObjGet(view.cur, f).o) :
                          MergedSubKept(view, f, ObjGet(view.cur, f).o[j].k,
                                        ObjGet(view.cur, f).o[j].v)
                  ELSE MergedTopIs(view, f, ObjGet(view.inc, f))

\* C23 witness: merge has run where current's scripts hold a sub-key that
\* diverges and one incoming does not mention, and where current's
\* dependencies are an object and incoming's are null.
C23_Witness ==
    /\ MergeDone
    /\ ~mergeFails(current, incoming)
    /\ LET cur == Spread(ObjGet(MergeView.cur, <<"scripts">>))
           inc == Spread(ObjGet(MergeView.inc, <<"scripts">>))
       IN  /\ ObjGet(MergeView.inc, <<"scripts">>).t = "obj"
           /\ \E i \in 1..Len(cur) :
                 ObjHas(inc, cur[i].k) /\ ObjGet(inc, cur[i].k) # cur[i].v
           /\ \E j \in 1..Len(cur) : ~ObjHas(inc, cur[j].k)
    /\ Len(Spread(ObjGet(MergeView.cur, <<"dependencies">>))) > 0
    /\ ObjGet(MergeView.inc, <<"dependencies">>) = Null

\* The sub-keys of field f that diverge: incoming holds them with a value
\* other than the one current holds.
divergentSubKeys(view, f) ==
    { i \in 1..Len(Spread(ObjGet(view.inc, f))) :
        LET e == Spread(ObjGet(view.inc, f))[i]
        IN  /\ ObjHas(Spread(ObjGet(view.cur, f)), e.k)
            /\ ObjGet(Spread(ObjGet(view.cur, f)), e.k) # e.v }
divergentCount(view) ==
    Cardinality({ <<f, i>> \in IncomingMergeFields(view) \X (1..MaxSubKeys + 1) :
                    i \in divergentSubKeys(view, f) })

\* The conflict ids of the merged mapping before it is serialized: the id
\* of every conf-start key of every merge-candidate field, with the place
\* of the key.
conflictIds(result) ==
    { <<i, j>> \in (1..Len(result)) \X (1..(5 * (MaxSubKeys + 1))) :
        /\ result[i].k \in PACKAGE_JSON_MERGE_FIELDS
        /\ j <= Len(Spread(result[i].v))
        /\ Spread(result[i].v)[j].k[1] = "conf-start::" }
conflictIdAt(result, at) == Tail(Spread(result[at[1]].v)[at[2]].k)

\* C24: in the text of a successful merge every delimiter line belongs to a
\* block of the shape open, one local value line, midpoint, one template
\* value line, close (so none is nested or left open); there are as many
\* blocks as divergent merge-candidate sub-keys; their conflict ids are
\* distinct and are 00, 01, ... counted across the merge-candidate fields.
C24_DelimitersWellFormed ==
    (MergeDone /\ ~mergeFails(current, incoming)) =>
        LET view == MergeView
            result == mergeResult(view.cur, view.inc)
            n == divergentCount(view)
        IN  /\ \A i \in 1..Len(merged) :
                  IsDelimiter(merged[i]) =>
                      \E b \in Blocks(merged) : i \in {b, b + 2, b + 4}
            /\ \A b \in Blocks(merged) :
                  /\ blockLocal(merged, b).ok
                  /\ blockTemplate(merged, b).ok
                  /\ blockLocal(merged, b).k = blockTemplate(merged, b).k
                  /\ merged[b + 3] # stripComment(merged[b + 3])
            /\ Cardinality(Blocks(merged)) = n
            /\ Cardinality(conflictIds(result)) = n
            /\ { conflictIdAt(result, at) : at \in conflictIds(result) }
                  = { padStart(toString(c), 2) : c \in 0..(n - 1) }

\* C24 witness: a successful merge has produced three blocks, two in
\* scripts and one in dependencies.
C24_Witness ==
    /\ MergeDone
    /\ ~mergeFails(current, incoming)
    /\ Cardinality(divergentSubKeys(MergeView, <<"scripts">>)) = 2
    /\ Cardinality(divergentSubKeys(MergeView, <<"dependencies">>)) = 1
    /\ Cardinality(Blocks(merged)) = 3

-----------------------------------------------------------------------------
(* Claims about repeated application (checked under SpecReapply)            *)

\* The text holds conflict markup: a delimiter line.
HasConflictMarkup(text) == \E i \in 1..Len(text) : IsDelimiter(text[i])

\* C25: a manifest that holds conflict markup from an earlier merge does not
\* parse, and a further add/modify entry applied to it writes back the text
\* it had: the blocks are the ones it had and no line is lost.
C25_ConflictedManifestKept ==
    (mode = "reapply" /\ idx > 0 /\ HasConflictMarkup(current)) =>
        /\ ~JSON_parse(current).ok
        /\ merged = current
        /\ fs[ManifestPath] = current
        /\ Blocks(fs[ManifestPath]) = Blocks(current)

\* C25 witness: a second entry, which holds a sub-key the manifest does not
\* mention, has been applied to a manifest that the first entry left with a
\* conflict block, and the failed merge was logged.
C25_Witness ==
    /\ mode = "reapply"
    /\ idx = 2
    /\ Blocks(current) # {}
    /\ JSON_parse(incoming).ok
    /\ Len(logs) = 1
    /\ \E e \in 1..Len(JSON_parse(incoming).v.o[1].v.o) :
          \A i \in 1..Len(current) :
              parseLine(stripComment(current[i]), 2).ok =>
                  parseLine(stripComment(current[i]), 2).k
                      # JSON_parse(incoming).v.o[1].v.o[e].k

-----------------------------------------------------------------------------
(* Claims about the lines transformToGitConflicts leaves alone (checked     *)
(* under SpecTransformAny)                                                   *)

\* The line is a sentinel line: it holds a conf-start, conf-mid or conf-end
\* key, or starts with a tmpl or curr key.
IsSentinelLine(l) ==
    \/ includesQuoted(l, "conf-start::")
    \/ includesQuoted(l, "conf-mid::")
    \/ includesQuoted(l, "conf-end::")
    \/ startsWithQuoted(trim(l), "tmpl::")
    \/ startsWithQuoted(trim(l), "curr::")

\* The lines of the text that stand where the input has no sentinel line.
outsideBlocks(text) ==
    [n \in 1..Cardinality({ i \in 1..Len(tinput) : ~IsSentinelLine(tinput[i]) }) |->
        text[CHOOSE i \in 1..Len(tinput) :
                /\ ~IsSentinelLine(tinput[i])
                /\ Cardinality({ h \in 1..i : ~IsSentinelLine(tinput[h]) }) = n]]

\* C27: transformToGitConflicts emits a line for a line; every input line
\* that is no sentinel line comes out unchanged, the lines outside the
\* blocks being the input's in the input's order, and an input without
\* sentinel lines comes out as it went in.
C27_OutsideBlocksUnchanged ==
    TransformDone =>
        /\ Len(toutput) = Len(tinput)
        /\ \A i \in 1..Len(tinput) :
              IF IsSentinelLine(tinput[i])
              THEN toutput[i] # tinput[i]
              ELSE toutput[i] = tinput[i]
        /\ outsideBlocks(toutput) = outsideBlocks(tinput)
        /\ (\A i \in 1..Len(tinput) : ~IsSentinelLine(tinput[i])) => toutput = tinput

\* C27 witness: the codec has run on a document with a sibling key ahead of
\* a conflict and one after it.
C27_Witness ==
    /\ TransformDone
    /\ \E i, j, h \in 1..Len(tinput) :
          /\ i < j /\ j < h
          /\ parseLine(tinput[i], 2).ok /\ ~IsSentinelLine(tinput[i])
          /\ IsSentinelLine(tinput[j])
          /\ parseLine(tinput[h], 2).ok /\ ~IsSentinelLine(tinput[h])
          /\ toutput[j] = LocalOpen

-----------------------------------------------------------------------------
(* Claims about findMatchingTemplateWorkspace (checked under SpecResolve)    *)

\* The category directory a project workspace, or a template workspace,
\* lies under.
projectCategory(w) == w[Len(optionsPath) + 1]
templateCategory(t) == t[1]
\* The two template paths of the basename of w.
candidatesFor(w) == { <<"packages", basename(w)>>, <<"apps", basename(w)>> }

\* C21 (as stated): a named match lies under the category directory of the
\* project workspace: packages/ for one under packages/, apps/ for one under
\* apps/.
C21_MatchInSameCategory ==
    mode = "update" =>
        \A i \in 1..Len(resolved) :
            resolved[i].kind = "named" =>
                templateCategory(resolved[i].template) = projectCategory(resolved[i].workspace)

\* C21 (amended): a readable project workspace has a named match exactly
\* when the template path of its basename under packages/ or under apps/
\* gives its package name, whichever of the two directories the project
\* workspace is under; the match is that path, the one under packages/
\* when both give the name.
C21_MatchInEitherCategory ==
    mode = "update" =>
        \A i \in 1..Len(resolved) :
            resolved[i].kind # "unreadable" =>
                /\ (resolved[i].kind = "named") <=>
                      (\E t \in candidatesFor(resolved[i].workspace) :
                          templateName(t) = resolved[i].packageName)
                /\ resolved[i].kind = "named" =>
                      /\ resolved[i].template \in candidatesFor(resolved[i].workspace)
                      /\ templateName(resolved[i].template) = resolved[i].packageName
                      /\ templateCategory(resolved[i].template) = "apps" =>
                            templateName(<<"packages", basename(resolved[i].workspace)>>)
                                # resolved[i].packageName

\* A named project workspace under apps/ matched the template workspace of
\* its basename and name under packages/.
C21_Witness ==
    /\ mode = "update"
    /\ \E i \in 1..Len(resolved) :
          /\ resolved[i].kind = "named"
          /\ resolved[i].packageName # Undef
          /\ projectCategory(resolved[i].workspace) = "apps"
          /\ templateCategory(resolved[i].template) = "packages"
          /\ isFile(templateTree, join(resolved[i].template, <<"package.json">>))

\* A readable workspace manifest exists at template path t.
templateManifestAt(t) ==
    /\ isFile(templateTree, join(t, <<"package.json">>))
    /\ JSON_parse(templateTree[join(t, <<"package.json">>)]).ok

\* C26: a named match is a template path that holds a readable workspace
\* manifest; a readable project workspace whose manifest has no name, or
\* whose basename names no directory of the template under packages/ or
\* apps/, gets no named match and goes to the category fallback.
C26_MatchNeedsTemplateManifest ==
    mode = "update" =>
        \A i \in 1..Len(resolved) :
            /\ resolved[i].kind = "named" => templateManifestAt(resolved[i].template)
            /\ ( /\ resolved[i].kind # "unreadable"
                 /\ \/ resolved[i].packageName = Undef
                    \/ \A t \in candidatesFor(resolved[i].workspace) :
                          ~existsSync(templateTree, t) )
               => resolved[i].kind \in {"fallback", "none"}

-----------------------------------------------------------------------------
(* Claims about hasValueChanged (checked under SpecCompare)                  *)

CompareDone == mode = "compare" /\ mstate = "done"

\* C15: hasValueChanged(a, a) is false for every JSON-compatible value a,
\* nested objects and arrays included, and for an absent one; it is true
\* whenever the two values are of different types (string and number of the
\* same digits, object and array, null and absent).
C15_ChangedIffDifferent ==
    CompareDone =>
        /\ valueA = valueB => ~changed
        /\ valueA.t # valueB.t => changed

\* An object that holds a non-empty array, compared with itself.
C15_Witness ==
    /\ CompareDone
    /\ valueA = valueB
    /\ valueA.t = "obj"
    /\ \E e \in Range(valueA.o) : e.v.t = "arr" /\ e.v.o # <<>>
    /\ ~changed

====
